---- MODULE Spec2Model ----
(***************************************************************************)
(* Verification model of the solTrendWheel narrative pipeline:             *)
(*   TokenClusteringEngine           (wheel-coin/backend/clustering.js)    *)
(*   NarrativeDetectionEngine        (narrative engine, unnamed/part_001)  *)
(*   NarrativeCharacterizationEngine (wheel-coin/backend/characterization) *)
(*   AdaptiveNarrativeScoringEngine  (scorer, unnamed/part_002)            *)
(*                                                                         *)
(* Numbers.  JavaScript numbers are modelled by integers on a fixed scale  *)
(* stated at each use, by exact fractions [num, den] where the code        *)
(* divides, and by the value NaN where the code produces NaN.              *)
(***************************************************************************)
EXTENDS Integers, Sequences, FiniteSets, TLC

VARIABLES
  tokens,          \* clustering: the batch handed to clusterTokens / processTokens
  clusterOut,      \* clustering: the object clusterTokens returned
  detectOut,       \* detection: the object processTokens returned
  registry,        \* characterization: this.narrativeProfiles, a Map in insertion order
  now,             \* characterization: Date.now(), in milliseconds
  pc,              \* characterization: "idle", or "updating" inside updateNarrativeProfiles
  cursor,          \* characterization: position of the for-of loop in the Map
  updatedProfiles, \* characterization: the Map updateNarrativeProfiles builds
  before,          \* characterization: the registry when the running or last pass began
  charIn,          \* characterization: the clusters handed to characterizeNarratives
  charOut,         \* characterization: what characterizeNarratives returned
  config,          \* scoring: this.config (minWeight, maxWeight, adaptationRate, ...)
  baseWeights,     \* scoring: this.config.baseWeights
  lastScores,      \* scoring: this.lastScores, the previous finalScore of each id
  scoreIn,         \* scoring: the narratives handed to calculateMemeCoinScores
  scoreOut,        \* scoring: the object calculateMemeCoinScores returned
  clusterHistory,  \* clustering: this.clusterHistory, the snapshot of each timestamp
  clock,           \* clustering: Date.now() as trackClusterEvolution reads it
  wheel,           \* server: wheelState (status, narratives, tokenData.avgConfidence)
  runs,            \* server: the number of aggregation runs so far
  selectIn,        \* clustering: the candidate results handed to selectBestClustering
  selectOut,       \* clustering: the result selectBestClustering returned
  dbscanIn,        \* clustering: the vectors handed to dbscan
  dbscanOut,       \* clustering: the labels dbscan returned
  hierarchicalIn,  \* clustering: the matrix hierarchicalClustering works on, in place
  hierarchicalOut, \* clustering: what hierarchicalClustering returned
  lifecycleIn,     \* characterization: the arguments of determineLifecycleStage
  lifecycleOut,    \* characterization: what determineLifecycleStage returned
  adjustIn,        \* scoring: the scoreData handed to applyLifecycleAdjustments
  adjustOut,       \* scoring: what applyLifecycleAdjustments returned for it
  featureCache,    \* clustering: this.featureCache, the feature record of each cache key
  extracted,       \* clustering: the last extractAllFeatures call and what it found
  trackedNarrative, \* detection: the narrative updateNarrativeLifecycle works on
  elapsed,         \* detection: Date.now() minus the narrative's emergenceTime
  inFlight         \* server: the aggregateData runs that are awaiting their fetches

clusterVars == <<tokens, clusterOut, detectOut>>

charVars == <<registry, now, pc, cursor, updatedProfiles, before, charIn, charOut>>

scoreVars == <<config, baseWeights, lastScores, scoreIn, scoreOut>>

historyVars == <<clusterHistory, clock>>

wheelVars == <<wheel, runs>>

callVars == <<selectIn, selectOut, dbscanIn, dbscanOut, hierarchicalIn, hierarchicalOut,
              lifecycleIn, lifecycleOut>>

engineVars == <<adjustIn, adjustOut, featureCache, extracted, trackedNarrative, elapsed,
                inFlight>>

vars == <<clusterVars, charVars, scoreVars, historyVars, wheelVars, callVars, engineVars>>

-----------------------------------------------------------------------------
(* Generic helpers                                                         *)

Abs(x) == IF x < 0 THEN -x ELSE x

Min2(a, b) == IF a < b THEN a ELSE b

Max2(a, b) == IF a > b THEN a ELSE b

RECURSIVE Gcd(_, _)
Gcd(a, b) == IF b = 0 THEN a ELSE Gcd(b, a % b)

RECURSIVE SumSeq(_)
SumSeq(s) == IF s = <<>> THEN 0 ELSE Head(s) + SumSeq(Tail(s))

Indices(s) == [k \in 1..Len(s) |-> k]

\* the element of a one-element set.  Only({ e(x) : x \in {d} }) is e with x
\* bound to the value of d, computed once
Only(S) == CHOOSE x \in S : TRUE

\* an exact fraction num/den (den > 0), kept in lowest terms
Frac(n, d) ==
  LET g == Gcd(Abs(n), d)
  IN  IF g = 0 THEN [num |-> 0, den |-> 1] ELSE [num |-> n \div g, den |-> d \div g]

FracAdd(a, b) == Frac(a.num * b.den + b.num * a.den, a.den * b.den)

FracMul(a, b) == Frac(a.num * b.num, a.den * b.den)

\* 1 / a, for a > 0
FracInv(a) == Frac(a.den, a.num)

FracLess(a, b) == a.num * b.den < b.num * a.den

\* the code's Infinity as a fraction: every finite fraction is less than it
FracInfinity == [num |-> 1, den |-> 0]

-----------------------------------------------------------------------------
(* TokenClusteringEngine: configuration (constructor defaults).            *)
(* Distances are on the scale 1/10: 5 is 0.5, 7 is 0.7.                    *)

minClusterSize == 3

maxClusters == 10

dbscanEps == 5

dbscanMinPts == 3

hierarchicalThreshold == 7

\* kMeans(vectors, k, maxIterations = 100)
maxIterations == 100

(* Bounds of the clustering model *)
MaxBatch == 6

\* The tokens of a batch are copies of three kinds of token.  A kind fixes
\* the fields both engines read and the feature vector extractAllFeatures
\* yields for them: one component, on the scale 1/10 (0, 0.5, 1.0).  Names
\* and symbols are lower-case words, a word a sequence of characters;
\* volume is in units of 10 000.
TokenKinds ==
  << [vec |-> 0,
      name |-> << <<"g","p","t">>, <<"n","e","u","r","a","l">> >>,
      symbol |-> <<"g","p","t">>,
      volume |-> 10, holders |-> 400, socialMentions |-> 40, priceChange24h |-> 25],
     [vec |-> 5,
      name |-> << <<"z","o","r","p">>, <<"b","l","i","p">> >>,
      symbol |-> <<"z","o","r","p">>,
      volume |-> 20, holders |-> 400, socialMentions |-> 40, priceChange24h |-> 20],
     [vec |-> 10,
      name |-> << <<"p","e","p","e">> >>,
      symbol |-> <<"p","e","p","e">>,
      volume |-> 0, holders |-> 0, socialMentions |-> 0, priceChange24h |-> -5] >>

VecValues == {TokenKinds[k].vec : k \in 1..Len(TokenKinds)}

\* the fields of a token (name, symbol, volume, ...): those of its kind
\* a token whose name and symbol are two different words of no theme
PlainKind ==
  [vec |-> 7,
   name |-> << <<"z","o","r","p">> >>,
   symbol |-> <<"z","r","p">>,
   volume |-> 10, holders |-> 400, socialMentions |-> 40, priceChange24h |-> 20]

Fields(token) ==
  Only({kind \in {TokenKinds[k] : k \in 1..Len(TokenKinds)} \cup {PlainKind} :
          kind.vec = token.vec})

\* f.vector of the feature record of a token (extractAllFeatures): the model
\* carries the extracted vector in the token
Vector(token) == token.vec

\* euclideanDistance(a, b) for vectors of one component
euclideanDistance(a, b) == Abs(a - b)

-----------------------------------------------------------------------------
(* groupTokensByClusters: a Map label -> cluster in insertion order.       *)

RECURSIVE GroupLoop(_, _, _, _)
GroupLoop(toks, labels, index, clusters) ==
  IF index > Len(labels) THEN clusters
  ELSE
    LET label == labels[index]
        pos == {p \in 1..Len(clusters) : clusters[p].id = label}
    IN  IF pos = {}
        THEN GroupLoop(toks, labels, index + 1,
                       Append(clusters, [id |-> label, tokens |-> <<toks[index]>>]))
        ELSE LET p == CHOOSE q \in pos : TRUE
             IN  GroupLoop(toks, labels, index + 1,
                           [clusters EXCEPT ![p].tokens = Append(@, toks[index])])

groupTokensByClusters(toks, labels) == GroupLoop(toks, labels, 1, <<>>)

\* clusters.filter(...).flatMap(cluster => cluster.tokens)
RECURSIVE FlatTokens(_)
FlatTokens(clusters) ==
  IF clusters = <<>> THEN <<>> ELSE Head(clusters).tokens \o FlatTokens(Tail(clusters))

-----------------------------------------------------------------------------
(* dbscan and findNeighbors.  Points are 1..n here (0..n-1 in the code);   *)
(* cluster ids are the code's (0, 1, ...), -1 is noise.                    *)

findNeighbors(vectors, pointIndex, eps) ==
  LET Near(i) == i # pointIndex /\ euclideanDistance(vectors[pointIndex], vectors[i]) <= eps
  IN  SelectSeq(Indices(vectors), Near)

InSeq(x, s) == \E k \in 1..Len(s) : s[k] = x

RECURSIVE DbscanExpand(_, _, _, _, _, _, _)
DbscanExpand(vectors, eps, minPts, labels, seedSet, j, clusterId) ==
  IF j > Len(seedSet) THEN labels
  ELSE
    LET point == seedSet[j]
        \* if (labels[point] === -1) labels[point] = clusterId
        l1 == IF labels[point] = -1 THEN [labels EXCEPT ![point] = clusterId] ELSE labels
    IN  IF l1[point] # -1
        THEN \* if (labels[point] !== -1) continue
             DbscanExpand(vectors, eps, minPts, l1, seedSet, j + 1, clusterId)
        ELSE LET l2 == [l1 EXCEPT ![point] = clusterId]
                 pointNeighbors == findNeighbors(vectors, point, eps)
                 Fresh(n) == ~InSeq(n, seedSet)
                 s2 == IF Len(pointNeighbors) >= minPts
                       THEN seedSet \o SelectSeq(pointNeighbors, Fresh)
                       ELSE seedSet
             IN  DbscanExpand(vectors, eps, minPts, l2, s2, j + 1, clusterId)

RECURSIVE DbscanLoop(_, _, _, _, _, _)
DbscanLoop(vectors, eps, minPts, labels, i, clusterId) ==
  IF i > Len(vectors) THEN labels
  ELSE IF labels[i] # -1
  THEN DbscanLoop(vectors, eps, minPts, labels, i + 1, clusterId)
  ELSE
    LET neighbors == findNeighbors(vectors, i, eps)
    IN  IF Len(neighbors) < minPts
        THEN DbscanLoop(vectors, eps, minPts, [labels EXCEPT ![i] = -1], i + 1, clusterId)
        ELSE DbscanLoop(vectors, eps, minPts,
                        DbscanExpand(vectors, eps, minPts,
                                     [labels EXCEPT ![i] = clusterId], neighbors, 1, clusterId),
                        i + 1, clusterId + 1)

dbscan(vectors, eps, minPts) ==
  DbscanLoop(vectors, eps, minPts, [k \in 1..Len(vectors) |-> -1], 1, 0)

-----------------------------------------------------------------------------
(* kMeans.  A centroid is an exact fraction; the k initial centroids are   *)
(* copies of k vectors of the batch picked by Math.random (the parameter   *)
(* seeds, any k-tuple of the batch's vectors).  Labels are 0..k-1.         *)

\* euclideanDistance(vectors[i], centroids[j]) as a fraction
CentroidDistance(v, c) == Frac(Abs(v * c.den - c.num), c.den)

RECURSIVE NearestCentroid(_, _, _, _, _)
NearestCentroid(v, centroids, j, minDist, bestCluster) ==
  IF j > Len(centroids) THEN bestCluster
  ELSE
    LET dist == CentroidDistance(v, centroids[j])
    IN  IF FracLess(dist, minDist)
        THEN NearestCentroid(v, centroids, j + 1, dist, j - 1)
        ELSE NearestCentroid(v, centroids, j + 1, minDist, bestCluster)

AssignLabels(vectors, centroids) ==
  [i \in 1..Len(vectors) |-> NearestCentroid(vectors[i], centroids, 1, FracInfinity, 0)]

UpdateCentroids(vectors, labels, centroids) ==
  [j \in 1..Len(centroids) |->
     LET members == {i \in 1..Len(vectors) : labels[i] = j - 1}
         Member(i) == i \in members
         clusterPoints == SelectSeq(Indices(vectors), Member)
     IN  IF members # {}
         THEN Frac(SumSeq([p \in 1..Len(clusterPoints) |-> vectors[clusterPoints[p]]]),
                   Cardinality(members))
         ELSE centroids[j]]

RECURSIVE InertiaLoop(_, _, _, _)
InertiaLoop(vectors, labels, centroids, i) ==
  IF i > Len(vectors) THEN Frac(0, 1)
  ELSE
    LET d == CentroidDistance(vectors[i], centroids[labels[i] + 1])
    IN  FracAdd(Frac(d.num * d.num, d.den * d.den),
                InertiaLoop(vectors, labels, centroids, i + 1))

\* Math.abs(prevInertia - inertia) < 1e-6; the inertia of the model is on
\* the scale 1/100 (squared distances), so the bound is 1/10000 here
InertiaConverged(prevInertia, inertia) ==
  /\ prevInertia # FracInfinity
  /\ LET diff == FracAdd(prevInertia, Frac(-inertia.num, inertia.den))
     IN  Abs(diff.num) <= (diff.den - 1) \div 10000

RECURSIVE KMeansIterate(_, _, _, _)
KMeansIterate(vectors, centroids, prevInertia, iteration) ==
  Only({ Only({ Only({
      IF InertiaConverged(prevInertia, inertia) \/ iteration + 1 >= maxIterations
      THEN [labels |-> labels, centroids |-> updated]
      ELSE KMeansIterate(vectors, updated, inertia, iteration + 1)
    : inertia \in {InertiaLoop(vectors, labels, updated, 1)} })
    : updated \in {UpdateCentroids(vectors, labels, centroids)} })
    : labels \in {AssignLabels(vectors, centroids)} })

kMeans(vectors, k, seeds) ==
  KMeansIterate(vectors, [j \in 1..k |-> Frac(seeds[j], 1)], FracInfinity, 0)

-----------------------------------------------------------------------------
(* hierarchicalClustering.  The matrix holds distances times 2^n, so that  *)
(* every average-linkage halving is exact; Infinity is the code's          *)
(* Infinity.  Labels are the code's (the 0-based index of a point).        *)

Infinity == 2^30

RECURSIVE Pow2(_)
Pow2(n) == IF n = 0 THEN 1 ELSE 2 * Pow2(n - 1)

calculateDistanceMatrix(vectors) ==
  [i \in 1..Len(vectors) |->
     [j \in 1..Len(vectors) |->
        euclideanDistance(vectors[i], vectors[j]) * Pow2(Len(vectors))]]

\* the pair (i, j), i < j, of least distance, the first one in row order
PairBefore(p, q) == p[1] < q[1] \/ (p[1] = q[1] /\ p[2] < q[2])

MinPair(matrix) ==
  LET n == Len(matrix)
      pairs == {p \in (1..n) \X (1..n) : p[1] < p[2] /\ matrix[p[1]][p[2]] < Infinity}
  IN  IF pairs = {} THEN <<0, 0>>
      ELSE CHOOSE p \in pairs :
             \A q \in pairs :
                \/ matrix[p[1]][p[2]] < matrix[q[1]][q[2]]
                \/ (matrix[p[1]][p[2]] = matrix[q[1]][q[2]] /\ (p = q \/ PairBefore(p, q)))

Average(a, b) == IF a = Infinity \/ b = Infinity THEN Infinity ELSE (a + b) \div 2

\* one merge: labels of the higher-labelled cluster renamed, average linkage
\* into row and column minI, row and column minJ removed
MergeLabels(labels, minI, minJ) ==
  LET newLabel == Min2(labels[minI], labels[minJ])
      oldLabel == Max2(labels[minI], labels[minJ])
  IN  [k \in 1..Len(labels) |-> IF labels[k] = oldLabel THEN newLabel ELSE labels[k]]

MergeMatrix(matrix, minI, minJ) ==
  [a \in 1..Len(matrix) |-> [b \in 1..Len(matrix) |->
     IF a = minJ \/ b = minJ THEN Infinity
     ELSE IF a = minI /\ b # minI THEN Average(matrix[minI][b], matrix[minJ][b])
     ELSE IF b = minI /\ a # minI THEN Average(matrix[minI][a], matrix[minJ][a])
     ELSE matrix[a][b]]]

\* a loop that stops after its first merge
HierarchicalLoopOnce(matrix, threshold, labels, dendrogram) ==
  LET pair == MinPair(matrix)
      minI == pair[1]
      minJ == pair[2]
      minDist == IF pair = <<0, 0>> THEN Infinity ELSE matrix[minI][minJ]
  IN  IF minDist = Infinity \/ minDist > threshold * Pow2(Len(matrix))
      THEN [labels |-> labels, dendrogram |-> dendrogram, matrix |-> matrix]
      ELSE [labels |-> MergeLabels(labels, minI, minJ),
            dendrogram |-> Append(dendrogram, [i |-> minI, j |-> minJ, distance |-> minDist]),
            matrix |-> MergeMatrix(matrix, minI, minJ)]

\* the while loop of hierarchicalClustering; matrix is distanceMatrix, which
\* the code updates in place
RECURSIVE HierarchicalLoop(_, _, _, _)
HierarchicalLoop(matrix, threshold, labels, dendrogram) ==
  Only({
    LET minI == pair[1]
        minJ == pair[2]
        minDist == IF pair = <<0, 0>> THEN Infinity ELSE matrix[minI][minJ]
    IN  IF minDist = Infinity \/ minDist > threshold * Pow2(Len(matrix))
        THEN [labels |-> labels, dendrogram |-> dendrogram, matrix |-> matrix]
        ELSE Only({
               HierarchicalLoop(merged, threshold, MergeLabels(labels, minI, minJ),
                                Append(dendrogram, [i |-> minI, j |-> minJ, distance |-> minDist]))
               : merged \in {MergeMatrix(matrix, minI, minJ)} })
    : pair \in {MinPair(matrix)} })

hierarchicalClustering(distanceMatrix, threshold) ==
  HierarchicalLoop(distanceMatrix, threshold,
                   [k \in 1..Len(distanceMatrix) |-> k - 1], <<>>)


-----------------------------------------------------------------------------
(* The three strategies, the selection and clusterTokens.                  *)

LargeEnough(cluster) == Len(cluster.tokens) >= minClusterSize

\* a filter for the outliers that lets clusters of two tokens through
SmallerStill(cluster) == Len(cluster.tokens) < minClusterSize - 1

TooSmall(cluster) == Len(cluster.tokens) < minClusterSize

Vectors(toks) == [i \in 1..Len(toks) |-> Vector(toks[i])]

performKMeansClustering(toks, seeds) ==
  LET k == Min2(maxClusters, Len(toks) \div minClusterSize)
  IN  IF k < 2
      THEN [algorithm |-> "kmeans", clusters |-> <<>>, outliers |-> toks]
      ELSE Only({
             [algorithm |-> "kmeans",
              clusters |-> SelectSeq(clusters, LargeEnough),
              outliers |-> FlatTokens(SelectSeq(clusters, TooSmall))]
             : clusters \in {groupTokensByClusters(toks, kMeans(Vectors(toks), k, seeds).labels)} })

performDBSCANClustering(toks) ==
  LET NotNoise(cluster) == cluster.id # -1
      Noise(cluster) == cluster.id = -1
  IN  Only({
        [algorithm |-> "dbscan",
         clusters |-> SelectSeq(clusters, NotNoise),
         outliers |-> FlatTokens(SelectSeq(clusters, Noise))]
        : clusters \in {groupTokensByClusters(toks,
                           dbscan(Vectors(toks), dbscanEps, dbscanMinPts))} })

performHierarchicalClustering(toks) ==
  Only({
    [algorithm |-> "hierarchical",
     clusters |-> SelectSeq(clusters, LargeEnough),
     outliers |-> FlatTokens(SelectSeq(clusters, TooSmall))]
    : clusters \in {groupTokensByClusters(toks,
                       hierarchicalClustering(calculateDistanceMatrix(Vectors(toks)),
                                              hierarchicalThreshold).labels)} })

\* compositeScore of a result with at least one cluster, as an exact fraction:
\* count * 0.3 + avgSize * 0.2 + (1 / (variance + 1)) * 0.2 + (outliers / total) * -0.3
compositeScore(result) ==
  LET clusterSizes == [c \in 1..Len(result.clusters) |-> Len(result.clusters[c].tokens)]
      count == Len(clusterSizes)
      sum == SumSeq(clusterSizes)
      avgClusterSize == Frac(sum, count)
      \* calculateVariance: mean of (size - mean)^2 = (count * sum of squares - sum^2) / count^2
      clusterSizeVariance ==
        Frac(count * SumSeq([c \in 1..count |-> clusterSizes[c] * clusterSizes[c]]) - sum * sum,
             count * count)
      totalTokens == sum + Len(result.outliers)
  IN  FracAdd(FracAdd(Frac(3 * count, 10), FracMul(avgClusterSize, Frac(2, 10))),
              FracAdd(FracMul(FracInv(FracAdd(clusterSizeVariance, Frac(1, 1))), Frac(2, 10)),
                      Frac(-3 * Len(result.outliers), 10 * totalTokens)))

\* a reduce that lets the current result win a tie: >= for >
RECURSIVE ReduceBestOrEqual(_, _)
ReduceBestOrEqual(best, scoredResults) ==
  IF scoredResults = <<>> THEN best
  ELSE IF FracLess(Head(scoredResults).compositeScore, best.compositeScore)
       THEN ReduceBestOrEqual(best, Tail(scoredResults))
       ELSE ReduceBestOrEqual(Head(scoredResults), Tail(scoredResults))

\* scoredResults.reduce((best, current) => current.compositeScore > best.compositeScore ? current : best)
RECURSIVE ReduceBest(_, _)
ReduceBest(best, scoredResults) ==
  IF scoredResults = <<>> THEN best
  ELSE IF FracLess(best.compositeScore, Head(scoredResults).compositeScore)
       THEN ReduceBest(Head(scoredResults), Tail(scoredResults))
       ELSE ReduceBest(best, Tail(scoredResults))

selectBestClustering(results) ==
  LET HasCluster(r) == Len(r.clusters) > 0
  IN  Only({
        IF Len(validResults) = 0 THEN results[1]
        ELSE Only({
               Only({ [algorithm |-> best.result.algorithm, clusters |-> best.result.clusters,
                       outliers |-> best.result.outliers]
                      : best \in {ReduceBest(Head(scoredResults), Tail(scoredResults))} })
               : scoredResults \in
                   {[r \in 1..Len(validResults) |->
                       [result |-> validResults[r],
                        compositeScore |-> compositeScore(validResults[r])]]} })
        : validResults \in {SelectSeq(results, HasCluster)} })

\* a variant of the short-circuit that drops the batch instead of reporting it
ClusterTokensDroppingBatch(toks, results) ==
  IF Len(toks) < minClusterSize
  THEN [called |-> TRUE, clusters |-> <<>>, outliers |-> <<>>, algorithmUsed |-> "none"]
  ELSE Only({
         [called |-> TRUE, clusters |-> bestResult.clusters, outliers |-> bestResult.outliers,
          algorithmUsed |-> bestResult.algorithm]
         : bestResult \in {selectBestClustering(results)} })

\* clusterTokens(tokens), given the results of the three strategies
ClusterTokensFrom(toks, results) ==
  IF Len(toks) < minClusterSize
  THEN [called |-> TRUE, clusters |-> <<>>, outliers |-> toks, algorithmUsed |-> "none"]
  ELSE Only({
         [called |-> TRUE, clusters |-> bestResult.clusters, outliers |-> bestResult.outliers,
          algorithmUsed |-> bestResult.algorithm]
         : bestResult \in {selectBestClustering(results)} })

\* clusterTokens(tokens); seeds are the k-means initial centroids
clusterTokens(toks, seeds) ==
  ClusterTokensFrom(toks, <<performKMeansClustering(toks, seeds),
                            performDBSCANClustering(toks),
                            performHierarchicalClustering(toks)>>)

\* createClusterSignature: the sorted names of the cluster's tokens, which the
\* code joins and hashes; a token's name is that of its kind, so the signature
\* is kept as the number of tokens of each kind
createClusterSignature(cluster) ==
  [vec \in {cluster.tokens[k].vec : k \in 1..Len(cluster.tokens)} |->
     Cardinality({k \in 1..Len(cluster.tokens) : cluster.tokens[k].vec = vec})]

\* the Map currentClusters of trackClusterEvolution: for each signature the
\* index of the last cluster that has it
CurrentClusters(clusters) ==
  [signature \in {createClusterSignature(clusters[k]) : k \in 1..Len(clusters)} |->
     CHOOSE k \in 1..Len(clusters) :
       /\ createClusterSignature(clusters[k]) = signature
       /\ \A m \in (k + 1)..Len(clusters) : createClusterSignature(clusters[m]) # signature]

\* the number of snapshots trackClusterEvolution keeps
historyDepth == 10

\* a history that never deletes a snapshot
trackClusterEvolutionKeepingAll(history, clusters, timestamp) ==
  [ts \in DOMAIN history \cup {timestamp} |->
     IF ts = timestamp THEN CurrentClusters(clusters) ELSE history[ts]]

\* trackClusterEvolution(clusters) at time timestamp: the snapshot is set under
\* the timestamp, then every timestamp after the historyDepth latest is deleted
trackClusterEvolution(history, clusters, timestamp) ==
  LET set == [ts \in DOMAIN history \cup {timestamp} |->
                IF ts = timestamp THEN CurrentClusters(clusters) ELSE history[ts]]
      kept == {ts \in DOMAIN set : Cardinality({later \in DOMAIN set : later > ts}) < historyDepth}
  IN  [ts \in kept |-> set[ts]]

-----------------------------------------------------------------------------
(* NarrativeDetectionEngine.  Similarities are on the scale 1/10000,       *)
(* scores on the scale the code uses (0..100).                             *)

\* config of the detection engine: minClusterSize is 3 there too
similarityThreshold == 7000

nameWeight == 30

priceWeight == 25

volumeWeight == 20

socialWeight == 15

holderWeight == 10

noveltyThreshold == 80

minNarrativeStrength == 50

\* knownPatterns, in the order of the Map: the categories a word of a token
\* kind matches (no word of TokenKinds contains or is contained in a keyword
\* of any other category)
knownPatterns ==
  << [category |-> "ai",
      keywords |-> << <<"a","i">>, <<"a","r","t","i","f","i","c","i","a","l">>,
                      <<"i","n","t","e","l","l","i","g","e","n","c","e">>, <<"m","l">>,
                      <<"b","o","t">>, <<"n","e","u","r","a","l">>, <<"g","p","t">>,
                      <<"c","h","a","t">>, <<"b","r","a","i","n">>, <<"a","g","e","n","t">> >>],
     [category |-> "frog",
      keywords |-> << <<"f","r","o","g">>, <<"p","e","p","e">>, <<"t","o","a","d">>,
                      <<"r","i","b","b","i","t">>, <<"p","o","n","d">>, <<"l","i","l","y">>,
                      <<"h","o","p">>, <<"a","m","p","h","i","b","i","a","n">> >>] >>

\* String.prototype.includes
Includes(word, part) ==
  \E i \in 1..(Len(word) - Len(part) + 1) : SubSeq(word, i, i + Len(part) - 1) = part

\* floor of the square root of x, 0 <= x < 2^30, by bisection of lo..hi
RECURSIVE SqrtBetween(_, _, _)
SqrtBetween(x, lo, hi) ==
  IF lo = hi THEN lo
  ELSE LET mid == (lo + hi + 1) \div 2
       IN  IF mid * mid <= x THEN SqrtBetween(x, mid, hi) ELSE SqrtBetween(x, lo, mid - 1)

ISqrt(x) == SqrtBetween(x, 0, 32767)

\* Math.round of num/den for num >= 0
Round(num, den) == (2 * num + den) \div (2 * den)

\* the words of `${name} ${symbol}` after normalize: longer than one character
TextWords(token) ==
  {w \in {Fields(token).name[k] : k \in 1..Len(Fields(token).name)} \cup {Fields(token).symbol} : Len(w) > 1}

NameWords(token) == {w \in {Fields(token).name[k] : k \in 1..Len(Fields(token).name)} : Len(w) > 1}

\* calculateTextSimilarity: Jaccard coefficient of two word sets
calculateTextSimilarity(words1, words2) ==
  IF words1 \cup words2 = {} THEN 0
  ELSE (Cardinality(words1 \cap words2) * 10000) \div Cardinality(words1 \cup words2)

calculatePriceSimilarity(token1, token2) ==
  LET change1 == Fields(token1).priceChange24h
      change2 == Fields(token2).priceChange24h
  IN  IF (change1 > 0 /\ change2 > 0) \/ (change1 < 0 /\ change2 < 0)
      THEN Max2(0, 10000 - Abs(change1 - change2) * 50)
      ELSE 1000

calculateVolumeSimilarity(token1, token2) ==
  LET vol1 == Fields(token1).volume
      vol2 == Fields(token2).volume
  IN  IF vol1 = 0 /\ vol2 = 0 THEN 10000
      ELSE IF vol1 = 0 \/ vol2 = 0 THEN 0
      ELSE (Min2(vol1, vol2) * 10000) \div Max2(vol1, vol2)

calculateSocialSimilarity(token1, token2) ==
  LET social1 == Fields(token1).socialMentions
      social2 == Fields(token2).socialMentions
  IN  IF social1 = 0 /\ social2 = 0 THEN 5000
      ELSE IF social1 = 0 \/ social2 = 0 THEN 2000
      ELSE (Min2(social1, social2) * 10000) \div Max2(social1, social2)

calculateHolderSimilarity(token1, token2) ==
  LET holders1 == Fields(token1).holders
      holders2 == Fields(token2).holders
  IN  IF holders1 = 0 /\ holders2 = 0 THEN 5000
      ELSE IF holders1 = 0 \/ holders2 = 0 THEN 1000
      ELSE ISqrt(((Min2(holders1, holders2) * 10000) \div Max2(holders1, holders2)) * 10000)

calculateTokenSimilarity(token1, token2) ==
  LET similarity ==
        (calculateTextSimilarity(TextWords(token1), TextWords(token2)) * nameWeight
         + calculatePriceSimilarity(token1, token2) * priceWeight
         + calculateVolumeSimilarity(token1, token2) * volumeWeight
         + calculateSocialSimilarity(token1, token2) * socialWeight
         + calculateHolderSimilarity(token1, token2) * holderWeight) \div 100
  IN  Max2(0, Min2(10000, similarity))

calculateSimilarityMatrix(toks) ==
  [i \in 1..Len(toks) |-> [j \in 1..Len(toks) |->
     IF i = j THEN 10000 ELSE calculateTokenSimilarity(toks[i], toks[j])]]

\* getNeighbors: indices in ascending order
getNeighbors(tokenIndex, similarityMatrix, threshold) ==
  SelectSeq(Indices(similarityMatrix[tokenIndex]),
            LAMBDA i : i # tokenIndex /\ similarityMatrix[tokenIndex][i] >= threshold)

\* performClustering: the expansion of one cluster (the while loop over queue)
RECURSIVE ExpandQueue(_, _, _, _, _)
ExpandQueue(similarityMatrix, queue, visited, clustered, indices) ==
  IF queue = <<>>
  THEN [visited |-> visited, clustered |-> clustered, indices |-> indices]
  ELSE LET currentIdx == Head(queue)
           currentNeighbors == getNeighbors(currentIdx, similarityMatrix, similarityThreshold)
           pushed == IF currentIdx \notin visited /\ Len(currentNeighbors) >= minClusterSize - 1
                     THEN SelectSeq(currentNeighbors,
                                    LAMBDA idx : idx \notin visited \cup {currentIdx})
                     ELSE <<>>
       IN  ExpandQueue(similarityMatrix, Tail(queue) \o pushed, visited \cup {currentIdx},
                       clustered \cup {currentIdx},
                       IF currentIdx \notin clustered THEN Append(indices, currentIdx)
                       ELSE indices)

RECURSIVE ClusteringLoop(_, _, _, _, _, _)
ClusteringLoop(toks, similarityMatrix, i, clusters, visited, clustered) ==
  IF i > Len(toks) THEN clusters
  ELSE IF i \in visited
  THEN ClusteringLoop(toks, similarityMatrix, i + 1, clusters, visited, clustered)
  ELSE LET neighbors == getNeighbors(i, similarityMatrix, similarityThreshold)
       IN  IF Len(neighbors) < minClusterSize - 1
           THEN ClusteringLoop(toks, similarityMatrix, i + 1, clusters,
                               visited \cup {i}, clustered)
           ELSE Only({
                  ClusteringLoop(toks, similarityMatrix, i + 1,
                                 IF Len(grown.indices) >= minClusterSize
                                 THEN Append(clusters,
                                        [id |-> Len(clusters),
                                         tokens |-> [k \in 1..Len(grown.indices) |->
                                                       toks[grown.indices[k]]],
                                         indices |-> grown.indices])
                                 ELSE clusters,
                                 grown.visited, grown.clustered)
                  : grown \in {ExpandQueue(similarityMatrix, neighbors, visited \cup {i},
                                           clustered \cup {i}, <<i>>)} })

performClustering(toks, similarityMatrix) ==
  ClusteringLoop(toks, similarityMatrix, 1, <<>>, {}, {})

\* extractKeywords: the words longer than two characters that are no common
\* word, in the order of first occurrence, then sorted by decreasing frequency
\* (Array.prototype.sort is stable)
commonWords == { <<"t","h","e">>, <<"a","n","d">>, <<"t","o","k","e","n">>,
                 <<"c","o","i","n">>, <<"c","r","y","p","t","o">> }

RECURSIVE AllText(_)
AllText(toks) ==
  IF toks = <<>> THEN <<>> ELSE Append(Fields(Head(toks)).name, Fields(Head(toks)).symbol) \o AllText(Tail(toks))

RECURSIVE DistinctWords(_, _)
DistinctWords(words, seen) ==
  IF words = <<>> THEN seen
  ELSE DistinctWords(Tail(words), IF InSeq(Head(words), seen) THEN seen
                                  ELSE Append(seen, Head(words)))

Frequency(word, words) == Cardinality({k \in 1..Len(words) : words[k] = word})

\* stable sort of a sequence of [key, item] by decreasing key
RECURSIVE SortDescending(_)
SortDescending(s) ==
  IF s = <<>> THEN <<>>
  ELSE LET best == CHOOSE k \in 1..Len(s) :
                     /\ \A m \in 1..Len(s) : s[m].key <= s[k].key
                     /\ \A m \in 1..(k - 1) : s[m].key < s[k].key
       IN  <<s[best]>> \o SortDescending(SubSeq(s, 1, best - 1) \o SubSeq(s, best + 1, Len(s)))

Items(s) == [k \in 1..Len(s) |-> s[k].item]

extractKeywords(text) ==
  LET words == SelectSeq(text, LAMBDA word : Len(word) > 2)
      meaningfulWords == SelectSeq(DistinctWords(words, <<>>),
                                   LAMBDA word : word \notin commonWords)
  IN  Items(SortDescending([k \in 1..Len(meaningfulWords) |->
              [key |-> Frequency(meaningfulWords[k], words), item |-> meaningfulWords[k]]]))

\* the number of (keyword, patternWord) pairs of which one contains the other
PatternMatches(keywords, pattern) ==
  Cardinality({pair \in (1..Len(keywords)) \X (1..Len(pattern.keywords)) :
                 \/ Includes(keywords[pair[1]], pattern.keywords[pair[2]])
                 \/ Includes(pattern.keywords[pair[2]], keywords[pair[1]])})

\* categorizeNarrative: the first category of the highest positive score
categorizeNarrative(keywords) ==
  LET Score(c) == PatternMatches(keywords, knownPatterns[c])
      best == {c \in 1..Len(knownPatterns) :
                 /\ Score(c) > 0
                 /\ \A d \in 1..Len(knownPatterns) : Score(d) <= Score(c)
                 /\ \A d \in 1..(c - 1) : Score(d) < Score(c)}
  IN  IF best # {} THEN knownPatterns[Only(best)].category
      ELSE IF Len(keywords) > 0 THEN "emerging"
      ELSE "other"

\* calculateVolumeConsistency: 1 - stdDev/avg of the positive volumes, the
\* coefficient of variation taken to two decimals
calculateVolumeConsistency(toks) ==
  LET volumes == SelectSeq([k \in 1..Len(toks) |-> Fields(toks[k]).volume], LAMBDA v : v > 0)
      total == SumSeq(volumes)
      squares == SumSeq([k \in 1..Len(volumes) |-> volumes[k] * volumes[k]])
  IN  IF Len(volumes) < 2 THEN 5000
      ELSE Max2(0, 10000 - 100 * ISqrt(((Len(volumes) * squares - total * total) * 10000)
                                       \div (total * total)))

calculateNameCoherence(toks) ==
  LET pairs == {p \in (1..Len(toks)) \X (1..Len(toks)) : p[1] < p[2]}
      RECURSIVE Total(_)
      Total(ps) == IF ps = {} THEN 0
                   ELSE LET p == CHOOSE q \in ps : TRUE
                        IN  calculateTextSimilarity(NameWords(toks[p[1]]), NameWords(toks[p[2]]))
                            + Total(ps \ {p})
  IN  IF pairs # {} THEN Total(pairs) \div Cardinality(pairs) ELSE 0

calculateNarrativeConfidence(cluster, keywords) ==
  LET clusterSize == Min2(10000, 1000 * Len(cluster.tokens))
      keywordRelevance == Min2(10000, 2000 * Len(keywords))
  IN  Round(clusterSize + keywordRelevance + calculateVolumeConsistency(cluster.tokens)
            + calculateNameCoherence(cluster.tokens), 400)

\* extractNarrativeFromCluster.  The id is the cluster's id without the
\* timestamp; the display name and avgPrice are left out
extractNarrativeFromCluster(cluster) ==
  LET n == Len(cluster.tokens)
      keywords == extractKeywords(AllText(cluster.tokens))
      totalVolume == SumSeq([k \in 1..n |-> Fields(cluster.tokens[k]).volume])
      totalHolders == SumSeq([k \in 1..n |-> Fields(cluster.tokens[k]).holders])
      totalSocial == SumSeq([k \in 1..n |-> Fields(cluster.tokens[k]).socialMentions])
      \* the four scores over the common denominator 10 n
      volumeScore == 10 * n * Min2(100, totalVolume)
      tokenCountScore == 10 * n * Min2(100, 10 * n)
      holderScore == n * Min2(1000, totalHolders)
      socialScore == 10 * Min2(100 * n, 2 * totalSocial)
  IN  [id |-> cluster.id,
       keywords |-> SubSeq(keywords, 1, Min2(5, Len(keywords))),
       tokens |-> cluster.tokens,
       strength |-> Round(volumeScore + tokenCountScore + holderScore + socialScore, 40 * n),
       metrics |-> [tokenCount |-> n, totalVolume |-> totalVolume,
                    totalHolders |-> totalHolders],
       category |-> categorizeNarrative(keywords),
       confidence |-> calculateNarrativeConfidence(cluster, keywords),
       lifecycle |-> "emerging"]

analyzeNarrativeCandidates(clusters) ==
  SelectSeq([k \in 1..Len(clusters) |-> extractNarrativeFromCluster(clusters[k])],
            LAMBDA narrative : narrative.strength >= minNarrativeStrength)

\* calculateNoveltyScore, times 100
calculateNoveltyScore(narrative) ==
  LET Similarity(c) == Min2(100, 20 * PatternMatches(narrative.keywords, knownPatterns[c]))
      maxSimilarity == IF \E c \in 1..Len(knownPatterns) : Similarity(c) > 0
                       THEN CHOOSE v \in {Similarity(c) : c \in 1..Len(knownPatterns)} :
                              \A c \in 1..Len(knownPatterns) : Similarity(c) <= v
                       ELSE 0
  IN  100 - maxSimilarity

detectNovelNarratives(candidates) ==
  SelectSeq([k \in 1..Len(candidates) |->
               [id |-> candidates[k].id, keywords |-> candidates[k].keywords,
                tokens |-> candidates[k].tokens, strength |-> candidates[k].strength,
                metrics |-> candidates[k].metrics, category |-> candidates[k].category,
                confidence |-> candidates[k].confidence, lifecycle |-> candidates[k].lifecycle,
                noveltyScore |-> calculateNoveltyScore(candidates[k])]],
            LAMBDA candidate : candidate.noveltyScore >= noveltyThreshold)

\* calculateTotalScore, times 100
calculateTotalScore(narrative) ==
  25 * narrative.strength + 25 * narrative.confidence + 20 * narrative.noveltyScore
  + 15 * Min2(100, 10 * narrative.metrics.totalVolume)
  + 15 * Min2(100, 5 * narrative.metrics.tokenCount)

scoreAndRankNarratives(narratives) ==
  LET ranked == Items(SortDescending([k \in 1..Len(narratives) |->
                        [key |-> calculateTotalScore(narratives[k]), item |-> narratives[k]]]))
  IN  SubSeq(ranked, 1, Min2(10, Len(ranked)))

calculateOverallConfidence(narratives) ==
  IF Len(narratives) = 0 THEN 0
  ELSE Round(SumSeq([k \in 1..Len(narratives) |-> narratives[k].confidence])
               * Min2(5, Len(narratives)),
             5 * Len(narratives))

\* processTokens.  No step of the pipeline throws for tokens of TokenKinds
\* (every field the pipeline reads is defined), so the catch clause is not
\* entered
processTokens(toks) ==
  IF Len(toks) < minClusterSize
  THEN [called |-> TRUE, narratives |-> <<>>, confidence |-> 0,
        tokensAnalyzed |-> Len(toks), clustersFound |-> 0]
  ELSE Only({ Only({
         [called |-> TRUE, narratives |-> rankedNarratives,
          confidence |-> calculateOverallConfidence(rankedNarratives),
          tokensAnalyzed |-> Len(toks), clustersFound |-> Len(clusters)]
         : rankedNarratives \in
             {scoreAndRankNarratives(detectNovelNarratives(
                                       analyzeNarrativeCandidates(clusters)))} })
         : clusters \in {performClustering(toks, calculateSimilarityMatrix(toks))} })

\* The scoring engine after construction with no option given.  Weights,
\* weight bounds, adaptation rate and correlation threshold are in thousandths;
\* baseWeights is the five weights over one denominator.
WeightKeys == <<"volume", "social", "liquidity", "holders", "priceVolatility">>

adaptationRate == 100
minWeight == 50
maxWeight == 500
correlationThreshold == 700

\* the weights the constructor sets when volumeWeight is configured (350 when
\* it is not)
ConfiguredWeights(volumeOption) ==
  [num |-> [volume |-> volumeOption, social |-> 250, liquidity |-> 200,
            holders |-> 100, priceVolatility |-> 100],
   den |-> 1000]

ConfiguredBounds(maxWeightOption) ==
  [adaptationRate |-> adaptationRate, minWeight |-> minWeight,
   maxWeight |-> maxWeightOption, correlationThreshold |-> correlationThreshold]

NoScores == [path |-> "none", rankedNarratives |-> <<>>, correlations |-> <<>>]

ScoreIdle ==
  /\ config = ConfiguredBounds(maxWeight)
  /\ baseWeights = ConfiguredWeights(350)
  /\ lastScores = <<>>
  /\ scoreIn = <<>>
  /\ scoreOut = NoScores

\* the clustering history and the server state of index.js at start-up
HistoryIdle ==
  /\ clusterHistory = <<>>
  /\ clock = 0

\* wheelState of index.js as the server starts: six narratives (score,
\* strength in hundredths, no confidence), tokenData.avgConfidence 85
InitialWheelNarratives ==
  << [score |-> 85, strength |-> 80, confidence |-> 0],
     [score |-> 72, strength |-> 70, confidence |-> 0],
     [score |-> 78, strength |-> 75, confidence |-> 0],
     [score |-> 45, strength |-> 40, confidence |-> 0],
     [score |-> 58, strength |-> 60, confidence |-> 0],
     [score |-> 65, strength |-> 50, confidence |-> 0] >>

WheelAtStart(initialized) ==
  [status |-> "alive", narratives |-> InitialWheelNarratives, avgConfidence |-> 85,
   engineInitialized |-> initialized]

WheelIdle ==
  /\ wheel = WheelAtStart(TRUE)
  /\ runs = 0

\* no direct call of selectBestClustering, dbscan, hierarchicalClustering or
\* determineLifecycleStage made or prepared
NotSelected == [called |-> FALSE, algorithm |-> "", clusters |-> <<>>, outliers |-> <<>>]

NoLabels == [called |-> FALSE, labels |-> <<>>]

NoDendrogram == [called |-> FALSE, labels |-> <<>>, dendrogram |-> <<>>]

NoStage == [called |-> FALSE, stage |-> "", score |-> 0]

NoLifecycleIn == [strength |-> 0, momentum |-> 0, growth |-> 0, age |-> ""]

CallIdle ==
  /\ selectIn = <<>>
  /\ selectOut = NotSelected
  /\ dbscanIn = <<>>
  /\ dbscanOut = NoLabels
  /\ hierarchicalIn = <<>>
  /\ hierarchicalOut = NoDendrogram
  /\ lifecycleIn = NoLifecycleIn
  /\ lifecycleOut = NoStage

\* no applyLifecycleAdjustments or extractAllFeatures call made, no narrative
\* tracked, no aggregation run started
NoAdjustIn ==
  [stage |-> "", themeAdjustedScore |-> 0,
   components |-> [volume |-> 0, social |-> 0, liquidity |-> 0, holders |-> 0,
                   priceVolatility |-> 0]]

NotAdjusted == [called |-> FALSE, lifecycleAdjustedScore |-> 0, lifecycleMultiplier |-> 0]

NotExtracted == [called |-> FALSE, tokens |-> <<>>, features |-> <<>>, cached |-> <<>>]

NoNarrative == [lifecycle |-> "", totalVolume |-> 0]

EngineIdle ==
  /\ adjustIn = NoAdjustIn
  /\ adjustOut = NotAdjusted
  /\ featureCache = <<>>
  /\ extracted = NotExtracted
  /\ trackedNarrative = NoNarrative
  /\ elapsed = 0
  /\ inFlight = 0

\* the characterization engine as constructed and not used
NoBatchOut == [called |-> FALSE, narratives |-> <<>>, growths |-> <<>>, registry |-> <<>>]

CharIdle ==
  /\ registry = <<>>
  /\ now = 0
  /\ pc = "idle"
  /\ cursor = 0
  /\ updatedProfiles = <<>>
  /\ before = <<>>
  /\ charIn = <<>>
  /\ charOut = NoBatchOut

-----------------------------------------------------------------------------
(* Specification of the batch entry points: Init draws the batch, the      *)
(* actions are the calls.                                                  *)

Batches ==
  UNION {[1..n -> VecValues] : n \in 0..MaxBatch}

\* the tokens of a batch: address i (distinct within a batch) and the vector
\* that stands for the token's kind
TokensOf(vecs) == [i \in 1..Len(vecs) |-> [address |-> i, vec |-> vecs[i]]]

NotCalled == [called |-> FALSE, clusters |-> <<>>, outliers |-> <<>>, algorithmUsed |-> "none"]

NotDetected ==
  [called |-> FALSE, narratives |-> <<>>, confidence |-> 0, tokensAnalyzed |-> 0,
   clustersFound |-> 0]

InitCluster ==
  /\ tokens \in {TokensOf(b) : b \in Batches}
  /\ clusterOut = NotCalled
  /\ detectOut = NotDetected
  /\ CharIdle
  /\ ScoreIdle
  /\ HistoryIdle
  /\ WheelIdle
  /\ CallIdle
  /\ EngineIdle

\* the number of k-means centroids for the batch (0 when k-means is not run)
SeedCount(toks) ==
  LET k == Min2(maxClusters, Len(toks) \div minClusterSize)
  IN  IF Len(toks) < minClusterSize \/ k < 2 THEN 0 ELSE k

\* clusterTokens(tokens), called once on the batch, for every choice of the
\* k-means seeds; the two strategies that draw no random number are
\* evaluated once
ClusterTokens ==
  /\ ~clusterOut.called
  /\ \E others \in {<<performDBSCANClustering(tokens), performHierarchicalClustering(tokens)>>} :
       \E seeds \in [1..SeedCount(tokens) -> {Vector(tokens[i]) : i \in 1..Len(tokens)}] :
         /\ clusterOut' = ClusterTokensFrom(tokens, <<performKMeansClustering(tokens, seeds)>> \o others)
         /\ clusterHistory' = IF Len(tokens) < minClusterSize THEN clusterHistory
                              ELSE trackClusterEvolution(clusterHistory, clusterOut'.clusters, clock)
  /\ UNCHANGED <<tokens, detectOut, charVars, scoreVars, clock, wheelVars, callVars, engineVars>>

\* processTokens(tokens), called once on the batch
ProcessTokens ==
  /\ ~detectOut.called
  /\ detectOut' = processTokens(tokens)
  /\ UNCHANGED <<tokens, clusterOut, charVars, scoreVars, historyVars, wheelVars, callVars, engineVars>>

NextCluster == ClusterTokens \/ ProcessTokens

SpecCluster == InitCluster /\ [][NextCluster]_vars


-----------------------------------------------------------------------------
(* Properties of the batch entry points                                    *)

\* C1: for a batch of fewer than minClusterSize tokens (the empty batch
\* included) clusterTokens returns zero clusters and the whole batch as
\* outliers, and processTokens returns zero narratives
SmallBatchYieldsEmptyResult ==
  Len(tokens) < minClusterSize =>
    /\ clusterOut.called => clusterOut.clusters = <<>> /\ clusterOut.outliers = tokens
    /\ detectOut.called => detectOut.narratives = <<>> /\ detectOut.confidence = 0

SmallBatchProcessed ==
  /\ Len(tokens) = minClusterSize - 1
  /\ clusterOut.called /\ clusterOut.outliers = tokens
  /\ detectOut.called /\ detectOut.tokensAnalyzed = Len(tokens)

\* C4: every cluster of the result of clusterTokens has at least
\* minClusterSize tokens, whichever strategy was selected
EveryClusterHasMinClusterSize ==
  clusterOut.called =>
    \A k \in 1..Len(clusterOut.clusters) :
      Len(clusterOut.clusters[k].tokens) >= minClusterSize

-----------------------------------------------------------------------------
(* NarrativeCharacterizationEngine.                                        *)
(* A JavaScript value that enters arithmetic is a record: a number (val,   *)
(* on the scale 1/1000), NaN, or a string.                                 *)

Num(v) == [type |-> "number", nan |-> FALSE, val |-> v, str |-> ""]

NaN == [type |-> "number", nan |-> TRUE, val |-> 0, str |-> ""]

Str(text) == [type |-> "string", nan |-> FALSE, val |-> 0, str |-> text]

\* ToNumber: the strings of the model are category words, none numeric
ToNumber(x) == IF x.type = "number" THEN x ELSE NaN

\* x * (num / den)
JsTimes(x, num, den) ==
  IF ToNumber(x).nan THEN NaN ELSE Num((ToNumber(x).val * num) \div den)

\* a + b for two numbers
JsPlus(a, b) == IF a.nan \/ b.nan THEN NaN ELSE Num(a.val + b.val)

\* x || 0 for a number x: NaN and 0 are falsy
JsOrZero(x) == IF x.nan \/ x.val = 0 THEN Num(0) ELSE x

\* Math.min(100, Math.max(0, x)): NaN passes through both
JsClamp100(x) == IF x.nan THEN NaN ELSE Num(Min2(100000, Max2(0, x.val)))

\* initializeThemeKeywords, in the order of the object: the themes a word of
\* TokenKinds matches (no keyword of another theme occurs in such a word).
\* weight is times 10; patterns are the alternatives of the theme's regex
themeKeywords ==
  << [theme |-> "animals", weight |-> 10,
      keywords |-> << <<"d","o","g">>, <<"d","o","g","e">>, <<"s","h","i","b">>,
                      <<"s","h","i","b","a">>, <<"p","u","p","p","y">>, <<"c","a","t">>,
                      <<"k","i","t","t","e","n">>, <<"b","e","a","r">>, <<"b","u","l","l">>,
                      <<"t","i","g","e","r">>, <<"l","i","o","n">>, <<"w","o","l","f">>,
                      <<"f","o","x">>, <<"r","a","b","b","i","t">>, <<"b","i","r","d">>,
                      <<"f","i","s","h">>, <<"f","r","o","g">>, <<"p","e","p","e">> >>,
      patterns |-> { <<"d","o","g">>, <<"d","o","g","e">>, <<"s","h","i","b">>,
                      <<"p","u","p","p","y">>, <<"c","a","t">>, <<"k","i","t","t","e","n">>,
                      <<"b","e","a","r">>, <<"b","u","l","l">>, <<"t","i","g","e","r">>,
                      <<"l","i","o","n">>, <<"w","o","l","f">>, <<"f","o","x">>,
                      <<"r","a","b","b","i","t">>, <<"b","i","r","d">>, <<"f","i","s","h">>,
                      <<"f","r","o","g">>, <<"p","e","p","e">> }],
     [theme |-> "ai", weight |-> 12,
      keywords |-> << <<"a","i">>, <<"a","r","t","i","f","i","c","i","a","l">>,
                      <<"i","n","t","e","l","l","i","g","e","n","c","e">>,
                      <<"n","e","u","r","a","l">>, <<"m","a","c","h","i","n","e">>,
                      <<"l","e","a","r","n","i","n","g">>, <<"g","p","t">>, <<"c","h","a","t">>,
                      <<"b","o","t">>, <<"r","o","b","o","t">>, <<"t","e","c","h">>,
                      <<"p","r","o","t","o","c","o","l">>, <<"n","e","t","w","o","r","k">> >>,
      patterns |-> { <<"a","i">>, <<"a","r","t","i","f","i","c","i","a","l">>,
                      <<"i","n","t","e","l","l","i","g","e","n","c","e">>,
                      <<"n","e","u","r","a","l">>, <<"m","a","c","h","i","n","e">>,
                      <<"l","e","a","r","n","i","n","g">>, <<"g","p","t">>, <<"c","h","a","t">>,
                      <<"b","o","t">>, <<"r","o","b","o","t">>, <<"t","e","c","h">>,
                      <<"p","r","o","t","o","c","o","l">>, <<"n","e","t","w","o","r","k">> }] >>

\* The clusters handed to the engine.  A token carries no createdAt and no
\* timestamp, as the tokens of the repository's fixtures.  The last cluster
\* has no tokens property
CharClusters ==
  << [hasTokens |-> TRUE, strength |-> Num(60000),
      tokens |-> <<[address |-> 1, vec |-> 0], [address |-> 2, vec |-> 0],
                   [address |-> 3, vec |-> 0]>>],
     [hasTokens |-> TRUE, strength |-> Num(20000),
      tokens |-> <<[address |-> 4, vec |-> 10], [address |-> 5, vec |-> 10],
                   [address |-> 6, vec |-> 10]>>],
     [hasTokens |-> TRUE, strength |-> Num(0), tokens |-> <<>>],
     [hasTokens |-> FALSE, strength |-> Num(0), tokens |-> <<>>] >>

\* extractWordFrequencies: the words longer than two characters in the order
\* of first occurrence (the keys of the Map); Frequency gives the counts
WordKeys(text) == DistinctWords(SelectSeq(text, LAMBDA word : Len(word) > 2), <<>>)

WordFrequency(word, text) ==
  IF Len(word) > 2 THEN Frequency(word, text) ELSE 0

\* matchThemeKeywords: per theme the keywords that occur in the text (a
\* keyword has no blank, so it occurs in the text iff it occurs in a word)
ThemeMatches(text, themeData) ==
  SelectSeq(themeData.keywords,
            LAMBDA keyword : \E k \in 1..Len(text) : Includes(text[k], keyword))

\* identifyThemes: score per theme, times 10.  rawText.match(patterns) of a
\* regex without the g flag is [match, group 1]: length 2 when a word matches
ThemeScore(text, themeData) ==
  SumSeq([k \in 1..Len(themeData.keywords) |->
            WordFrequency(themeData.keywords[k], text) * themeData.weight])
  + (IF \E k \in 1..Len(text) : text[k] \in themeData.patterns THEN 2 ELSE 0)
    * themeData.weight * 2

\* sortedThemes: [theme, score] for the themes of positive score, by
\* decreasing score
sortedThemes(text) ==
  LET scored == SelectSeq([k \in 1..Len(themeKeywords) |->
                             [key |-> ThemeScore(text, themeKeywords[k]),
                              item |-> themeKeywords[k].theme]],
                          LAMBDA entry : entry.key > 0)
  IN  SortDescending(scored)

\* identifyThemes: primary is null when no theme scores
identifyThemes(text) ==
  LET sorted == sortedThemes(text)
  IN  [primary |-> IF Len(sorted) > 0
                   THEN [isNull |-> FALSE, theme |-> sorted[1].item, score |-> sorted[1].key]
                   ELSE [isNull |-> TRUE, theme |-> "", score |-> 0],
       secondary |-> [k \in 1..Min2(2, Len(sorted) - 1) |->
                        [theme |-> sorted[k + 1].item, score |-> sorted[k + 1].key]]]

\* calculateMarketMetrics: volume in units of 10 000, avgPriceChange times 1000
calculateMarketMetrics(toks) ==
  LET validTokens == Cardinality({k \in 1..Len(toks) : Fields(toks[k]).volume # 0})
      priceChange == SumSeq([k \in 1..Len(toks) |-> Fields(toks[k]).priceChange24h])
  IN  [totalVolume |-> SumSeq([k \in 1..Len(toks) |-> Fields(toks[k]).volume]),
       totalHolders |-> SumSeq([k \in 1..Len(toks) |-> Fields(toks[k]).holders]),
       totalSocialMentions |-> SumSeq([k \in 1..Len(toks) |-> Fields(toks[k]).socialMentions]),
       avgPriceChange |-> IF validTokens > 0 THEN (priceChange * 1000) \div validTokens
                          ELSE priceChange * 1000]

\* categorizeVolume (totalVolume in units of 10 000)
categorizeVolume(totalVolume) ==
  IF totalVolume > 5000 THEN "massive"
  ELSE IF totalVolume > 1000 THEN "high"
  ELSE IF totalVolume > 100 THEN "moderate"
  ELSE IF totalVolume > 10 THEN "low"
  ELSE "minimal"

\* analyzeTemporalPatterns: created = token.createdAt || token.timestamp || now,
\* so the age of every token of the model is 0.  avgAge of no token is 0/0
AvgAge(toks) == IF Len(toks) = 0 THEN NaN ELSE Num(0)

\* categorizeNarrativeAge: every comparison with NaN is false
categorizeNarrativeAge(avgAge) ==
  IF avgAge.nan THEN "established"
  ELSE IF avgAge.val < 24 * 3600 * 1000 THEN "new"
  ELSE IF avgAge.val < 168 * 3600 * 1000 THEN "fresh"
  ELSE IF avgAge.val < 720 * 3600 * 1000 THEN "mature"
  ELSE "established"

\* analyzeEmergencePattern: timeSpan is 0 for tokens of age 0, NaN for none
analyzeEmergencePattern(toks) == IF Len(toks) = 0 THEN "extended" ELSE "burst"

\* calculateMomentum, times 1000
calculateMomentum(emergencePattern) ==
  CASE emergencePattern = "burst" -> 800
    [] emergencePattern = "rapid" -> 600
    [] emergencePattern = "gradual" -> 300
    [] emergencePattern = "extended" -> 100
    [] OTHER -> 0

\* calculateCommunityEngagement: min(1, avgMentions / max(1, avgHolders) * 10)
calculateCommunityEngagement(toks) ==
  LET metrics == calculateMarketMetrics(toks)
  IN  IF Len(toks) = 0 THEN NaN
      ELSE Num(Min2(1000, (metrics.totalSocialMentions * 10000)
                            \div Max2(Len(toks), metrics.totalHolders)))

\* the values Math.random gives calculateCommunityGrowth, (random - 0.5) * 0.4,
\* in hundredths
GrowthValues == {-20, 0, 19}

\* calculateNarrativeCharacteristics: the parts the engine reads back.
\* temporal has the properties age, emergence and momentum
calculateNarrativeCharacteristics(cluster, growth) ==
  LET metrics == calculateMarketMetrics(cluster.tokens)
  IN  [volatility |-> [score |-> Num(Min2(100000, Abs(metrics.avgPriceChange)))],
       community |-> [engagement |-> calculateCommunityEngagement(cluster.tokens),
                      growth |-> growth],
       market |-> [volume |-> Str(categorizeVolume(metrics.totalVolume))],
       \* no token has an engagement property: Math.sqrt(mentions * 0) / 1000
       social |-> [virality |-> Num(0)],
       temporal |-> [age |-> categorizeNarrativeAge(AvgAge(cluster.tokens)),
                     emergence |-> analyzeEmergencePattern(cluster.tokens),
                     momentum |-> calculateMomentum(analyzeEmergencePattern(cluster.tokens))]]

\* lifecycleThresholds of the constructor
emergingThreshold == 30

growingThreshold == 60

peakThreshold == 80

\* determineLifecycleStage; the score is times 1000
determineLifecycleStage(cluster, characteristics) ==
  LET strength == JsOrZero(cluster.strength).val
      momentum == characteristics.temporal.momentum
      growth == characteristics.community.growth
      age == characteristics.temporal.age
      base == strength + momentum * 20 + growth * 150
      lifecycleScore == IF age = "new" THEN (base * 8) \div 10
                        ELSE IF age = "mature" THEN (base * 11) \div 10
                        ELSE base
  IN  [stage |-> IF lifecycleScore < emergingThreshold * 1000 THEN "emerging"
                 ELSE IF lifecycleScore < growingThreshold * 1000 THEN "growing"
                 ELSE IF lifecycleScore < peakThreshold * 1000 THEN "peak"
                 ELSE IF momentum < 0 /\ growth < 0 THEN "declining"
                 ELSE "peak",
       score |-> lifecycleScore]

\* stageMultipliers[characteristics.temporal.stage] || 1.0, times 10
StageMultiplier(temporal) ==
  IF "stage" \in DOMAIN temporal
  THEN CASE temporal["stage"] = "emerging" -> 8
         [] temporal["stage"] = "growing" -> 12
         [] temporal["stage"] = "peak" -> 10
         [] temporal["stage"] = "declining" -> 6
         [] OTHER -> 10
  ELSE 10

RECURSIVE JsSum(_)
JsSum(values) ==
  IF values = <<>> THEN Num(0) ELSE JsPlus(Head(values), JsSum(Tail(values)))

\* calculateNarrativeStrength
calculateNarrativeStrength(cluster, themes, characteristics) ==
  LET base == JsOrZero(cluster.strength)
      primary == IF themes.primary.isNull THEN Num(0)
                 ELSE Num(themes.primary.score * 500)
      secondary == JsSum([k \in 1..Len(themes.secondary) |->
                            Num(themes.secondary[k].score * 200)])
      strength == JsSum(<<base, primary, secondary,
                          JsTimes(characteristics.market.volume, 1, 10),
                          JsTimes(characteristics.community.engagement, 10, 1),
                          JsTimes(characteristics.social.virality, 15, 1),
                          JsTimes(characteristics.volatility.score, 2, 10)>>)
  IN  JsClamp100(JsTimes(strength, StageMultiplier(characteristics.temporal), 10))

\* a token's name as a string: its words joined by blanks
RECURSIVE JoinWords(_)
JoinWords(words) ==
  IF words = <<>> THEN <<>>
  ELSE IF Len(words) = 1 THEN Head(words)
  ELSE Head(words) \o <<" ">> \o JoinWords(Tail(words))

\* findCommonPrefix / findCommonSuffix
findCommonPrefix(str1, str2) ==
  LET Agree(i) == \A j \in 1..i : str1[j] = str2[j]
      i == CHOOSE n \in 0..Min2(Len(str1), Len(str2)) :
             Agree(n) /\ (n = Min2(Len(str1), Len(str2)) \/ ~Agree(n + 1))
  IN  SubSeq(str1, 1, i)

findCommonSuffix(str1, str2) ==
  LET Agree(i) == \A j \in 0..(i - 1) : str1[Len(str1) - j] = str2[Len(str2) - j]
      i == CHOOSE n \in 0..Min2(Len(str1), Len(str2)) :
             Agree(n) /\ (n = Min2(Len(str1), Len(str2)) \/ ~Agree(n + 1))
  IN  SubSeq(str1, Len(str1) - i + 1, Len(str1))

\* the pairs (i, j), i < j, of 1..n in the order of the two nested loops
RECURSIVE PairsFrom(_, _, _)
PairsFrom(i, j, n) ==
  IF i >= n THEN <<>>
  ELSE IF j > n THEN PairsFrom(i + 1, i + 2, n)
  ELSE <<<<i, j>>>> \o PairsFrom(i, j + 1, n)

\* what findCommonPrefixes and findCommonSuffixes keep of the parts the pairs
\* of names share: those longer than 2, each once
DistinctParts(parts) ==
  DistinctWords(SelectSeq(parts, LAMBDA part : Len(part) > 2), <<>>)

findCommonPrefixes(names) ==
  LET pairs == PairsFrom(1, 2, Len(names))
  IN  DistinctParts([k \in 1..Len(pairs) |->
                       findCommonPrefix(names[pairs[k][1]], names[pairs[k][2]])])

findCommonSuffixes(names) ==
  LET pairs == PairsFrom(1, 2, Len(names))
  IN  DistinctParts([k \in 1..Len(pairs) |->
                       findCommonSuffix(names[pairs[k][1]], names[pairs[k][2]])])

\* analyzeNamePatterns: the names that are not empty
NameStrings(toks) ==
  SelectSeq([k \in 1..Len(toks) |-> JoinWords(Fields(toks[k]).name)],
            LAMBDA name : Len(name) > 0)

RECURSIVE Concat(_)
Concat(seqs) == IF seqs = <<>> THEN <<>> ELSE Head(seqs) \o Concat(Tail(seqs))

\* a name option: key is the confidence times 1000, item what the name is
\* built from
NameOption(confidence, source, theme, word) ==
  [key |-> confidence, item |-> [source |-> source, theme |-> theme, word |-> word]]

generateThemeBasedNames(text) ==
  Concat([k \in 1..Len(themeKeywords) |->
    LET keywords == ThemeMatches(text, themeKeywords[k])
        confidence == Min2(1000, Len(keywords) * themeKeywords[k].weight * 20)
    IN  IF Len(keywords) = 0 THEN <<>>
        ELSE <<NameOption(confidence, "theme-basic", themeKeywords[k].theme, <<>>)>>
             \o (IF Len(keywords) > 1
                 THEN <<NameOption((confidence * 9) \div 10, "theme-keyword",
                                   themeKeywords[k].theme, keywords[1])>>
                 ELSE <<>>)])

generateKeywordBasedNames(text) ==
  LET sorted == SortDescending([k \in 1..Len(WordKeys(text)) |->
                   [key |-> Frequency(WordKeys(text)[k], text), item |-> WordKeys(text)[k]]])
      topWords == SubSeq(sorted, 1, Min2(5, Len(sorted)))
      kept == SelectSeq(topWords, LAMBDA entry : Len(entry.item) > 3 /\ entry.key > 1)
  IN  [k \in 1..Len(kept) |->
         NameOption(Min2(1000, kept[k].key * 200), "keyword-frequency", "", kept[k].item)]

generatePatternBasedNames(toks) ==
  LET prefixes == findCommonPrefixes(NameStrings(toks))
      suffixes == findCommonSuffixes(NameStrings(toks))
  IN  [k \in 1..Len(prefixes) |-> NameOption(700, "pattern-prefix", "", prefixes[k])]
      \o [k \in 1..Len(suffixes) |-> NameOption(600, "pattern-suffix", "", suffixes[k])]

generateBehaviorBasedNames(metrics) ==
  (IF Abs(metrics.avgPriceChange) > 100000
   THEN <<NameOption(800, "behavior-volatility", "", <<>>)>> ELSE <<>>)
  \o (IF metrics.totalVolume > 100
      THEN <<NameOption(700, "behavior-volume", "", <<>>)>> ELSE <<>>)
  \o (IF metrics.totalHolders > 10000
      THEN <<NameOption(800, "behavior-community", "", <<>>)>> ELSE <<>>)

\* generateNarrativeNames: the five options of highest confidence
generateNarrativeNames(toks) ==
  LET nameOptions == SortDescending(generateThemeBasedNames(AllText(toks))
                                    \o generateKeywordBasedNames(AllText(toks))
                                    \o generatePatternBasedNames(toks)
                                    \o generateBehaviorBasedNames(calculateMarketMetrics(toks)))
  IN  Items(SubSeq(nameOptions, 1, Min2(5, Len(nameOptions))))

\* generateNarrativeId: theme, the symbols of the first three tokens and the
\* timestamp, the parts of the id string
generateNarrativeId(cluster, primaryTheme, time) ==
  [theme |-> IF primaryTheme.isNull THEN "unknown" ELSE primaryTheme.theme,
   tokens |-> [k \in 1..Min2(3, Len(cluster.tokens)) |-> Fields(cluster.tokens[k]).symbol],
   timestamp |-> time]

NoProfile ==
  [id |-> [theme |-> "", tokens |-> <<>>, timestamp |-> 0],
   name |-> [source |-> "", theme |-> "", word |-> <<>>],
   themes |-> [primary |-> [isNull |-> TRUE, theme |-> "", score |-> 0], secondary |-> <<>>],
   lifecycle |-> [stage |-> "", score |-> 0],
   strength |-> Num(0),
   tokens |-> <<>>,
   metadata |-> [tokenCount |-> 0, createdAt |-> 0, version |-> 0]]

\* characterizeNarrative(cluster) at time `time`, growth being the value
\* calculateCommunityGrowth draws.  The outcome is "profile" (the profile is
\* returned and written to the registry), "null" (an exception inside the try:
\* nameOptions[0] of no option) or "throw" (cluster.tokens.length of a cluster
\* without tokens, before the try)
characterizeNarrative(cluster, growth, time) ==
  IF ~cluster.hasTokens THEN [outcome |-> "throw", profile |-> NoProfile]
  ELSE Only({ Only({ Only({
         IF Len(nameOptions) = 0 THEN [outcome |-> "null", profile |-> NoProfile]
         ELSE [outcome |-> "profile",
               profile |->
                 [id |-> generateNarrativeId(cluster, themes.primary, time),
                  name |-> nameOptions[1],
                  themes |-> themes,
                  lifecycle |-> determineLifecycleStage(cluster, characteristics),
                  strength |-> calculateNarrativeStrength(cluster, themes, characteristics),
                  tokens |-> cluster.tokens,
                  metadata |-> [tokenCount |-> Len(cluster.tokens), createdAt |-> time,
                                version |-> 1]]]
         : characteristics \in {calculateNarrativeCharacteristics(cluster, growth)} })
         : themes \in {identifyThemes(AllText(cluster.tokens))} })
         : nameOptions \in {generateNarrativeNames(cluster.tokens)} })

\* Map.prototype.set on a Map kept as the sequence of its entries in insertion
\* order: an existing key keeps its position, a new key goes to the end
MapSet(map, key, profile) ==
  IF \E k \in 1..Len(map) : map[k].key = key
  THEN [k \in 1..Len(map) |->
          IF map[k].key = key THEN [key |-> key, profile |-> profile] ELSE map[k]]
  ELSE Append(map, [key |-> key, profile |-> profile])

\* a registry write made before the naming step has been checked: only a
\* cluster without tokens, which fails before any step, writes nothing
StoredBeforeLastStep(map, result) ==
  IF result.outcome = "throw" THEN map
  ELSE MapSet(map, result.profile.id, result.profile)

\* the registry after characterizeNarrative has returned `result`
Stored(map, result) ==
  IF result.outcome = "profile" THEN MapSet(map, result.profile.id, result.profile)
  ELSE map

\* a loop that gives up at the first cluster whose characterization throws
RECURSIVE CharacterizeLoopAborting(_, _, _, _, _, _)
CharacterizeLoopAborting(clusters, growths, time, k, narratives, map) ==
  IF k > Len(clusters) THEN [called |-> TRUE, narratives |-> narratives,
                             growths |-> growths, registry |-> map]
  ELSE LET result == characterizeNarrative(clusters[k], growths[k], time)
       IN  IF result.outcome = "throw"
           THEN [called |-> TRUE, narratives |-> narratives,
                 growths |-> growths, registry |-> map]
           ELSE CharacterizeLoopAborting(clusters, growths, time, k + 1,
                  IF result.outcome = "profile" THEN Append(narratives, result.profile)
                  ELSE narratives,
                  Stored(map, result))

\* the loop of characterizeNarratives from cluster k on: a cluster whose
\* characterization returns null or throws leaves no narrative
RECURSIVE CharacterizeLoop(_, _, _, _, _, _)
CharacterizeLoop(clusters, growths, time, k, narratives, map) ==
  IF k > Len(clusters) THEN [called |-> TRUE, narratives |-> narratives,
                             growths |-> growths, registry |-> map]
  ELSE LET result == characterizeNarrative(clusters[k], growths[k], time)
       IN  CharacterizeLoop(clusters, growths, time, k + 1,
             IF result.outcome = "profile" THEN Append(narratives, result.profile)
             ELSE narratives,
             Stored(map, result))

characterizeNarratives(clusters, growths, time, map) ==
  CharacterizeLoop(clusters, growths, time, 1, <<>>, map)

-----------------------------------------------------------------------------
\* The registry of profiles over time: characterizeNarrative calls, the clock,
\* and updateNarrativeProfiles, whose loop awaits between two profiles.

MaxNow == 1
MaxVersion == 2
MaxProfiles == 2

InitChar ==
  /\ tokens = <<>>
  /\ clusterOut = NotCalled
  /\ detectOut = NotDetected
  /\ CharIdle
  /\ ScoreIdle
  /\ HistoryIdle
  /\ WheelIdle
  /\ CallIdle
  /\ EngineIdle

\* one millisecond passes on the clock Date.now() reads
Tick ==
  /\ now < MaxNow
  /\ now' = now + 1
  /\ UNCHANGED <<clusterVars, scoreVars, historyVars, wheelVars, callVars, registry, pc, cursor, updatedProfiles, before, charIn, charOut, engineVars>>

\* characterizeNarrative(cluster), called by a user of the engine
CharacterizeNarrative ==
  /\ pc = "idle"
  /\ Len(registry) < MaxProfiles
  /\ \E c \in 1..Len(CharClusters), growth \in GrowthValues :
       registry' = Stored(registry, characterizeNarrative(CharClusters[c], growth, now))
  /\ before' = <<>>
  /\ UNCHANGED <<clusterVars, scoreVars, historyVars, wheelVars, callVars, now, pc, cursor, updatedProfiles, charIn, charOut, engineVars>>

\* updateNarrativeProfiles up to its loop; before is the registry it found
UpdateBegin ==
  /\ pc = "idle"
  /\ \A k \in 1..Len(registry) : registry[k].profile.metadata.version < MaxVersion
  /\ pc' = "updating"
  /\ cursor' = 1
  /\ updatedProfiles' = <<>>
  /\ before' = registry
  /\ UNCHANGED <<clusterVars, scoreVars, historyVars, wheelVars, callVars, registry, now, charIn, charOut, engineVars>>

\* one turn of the loop over the live Map: the entry at the cursor is
\* characterized again from its tokens and its strength, which writes the new
\* profile to the Map under its new id; version and createdAt are then set on
\* that same object, which goes to updatedProfiles under the entry's key
UpdateStep ==
  /\ pc = "updating"
  /\ cursor <= Len(registry)
  /\ LET id == registry[cursor].key
         profile == registry[cursor].profile
         mockCluster == [hasTokens |-> TRUE, strength |-> profile.strength,
                         tokens |-> profile.tokens]
     IN  \E growth \in GrowthValues :
           LET result == characterizeNarrative(mockCluster, growth, now)
               updatedProfile ==
                 [result.profile EXCEPT
                    !.metadata.version = profile.metadata.version + 1,
                    !.metadata.createdAt = profile.metadata.createdAt]
           IN  CASE result.outcome = "profile" ->
                      /\ registry' = MapSet(registry, updatedProfile.id, updatedProfile)
                      /\ updatedProfiles' = MapSet(updatedProfiles, id, updatedProfile)
                 [] result.outcome = "null" ->
                      UNCHANGED <<registry, updatedProfiles>>
                 [] OTHER ->
                      /\ updatedProfiles' = MapSet(updatedProfiles, id, profile)
                      /\ UNCHANGED registry
  /\ cursor' = cursor + 1
  /\ UNCHANGED <<clusterVars, scoreVars, historyVars, wheelVars, callVars, now, pc, before, charIn, charOut, engineVars>>

\* the loop is over: updatedProfiles becomes the registry
UpdateEnd ==
  /\ pc = "updating"
  /\ cursor > Len(registry)
  /\ registry' = updatedProfiles
  /\ pc' = "idle"
  /\ cursor' = 0
  /\ updatedProfiles' = <<>>
  /\ UNCHANGED <<clusterVars, scoreVars, historyVars, wheelVars, callVars, now, before, charIn, charOut, engineVars>>

NextChar == Tick \/ CharacterizeNarrative \/ UpdateBegin \/ UpdateStep \/ UpdateEnd

SpecChar == InitChar /\ [][NextChar]_vars

\* a JavaScript value that is a number from 0 to 100 (val is times 1000)
WithinHundred(value) ==
  value.type = "number" /\ ~value.nan /\ 0 <= value.val /\ value.val <= 100000

\* C3: every profile characterizeNarrative has produced, all of which are in
\* the registry, has a strength that is a number within [0,100]
StrengthWithinRange ==
  \A k \in 1..Len(registry) : WithinHundred(registry[k].profile.strength)

\* the profile the registry holds under `key`, in a set (empty if none)
ProfilesAt(map, key) == {map[k].profile : k \in {j \in 1..Len(map) : map[j].key = key}}

\* an updateNarrativeProfiles pass has run to its end, over a registry that
\* held profiles, and nothing has touched the registry since
PassDone == pc = "idle" /\ before # <<>>

\* C7: after an updateNarrativeProfiles pass, each profile that was in the
\* registry before it has the primary theme and the lifecycle stage it had
\* before, its tokens being the same
SameThemeAndStage ==
  PassDone =>
    \A k \in 1..Len(before) : \A updated \in ProfilesAt(registry, before[k].key) :
      /\ updated.themes.primary = before[k].profile.themes.primary
      /\ updated.lifecycle.stage = before[k].profile.lifecycle.stage

\* C8: after an updateNarrativeProfiles pass, every profile that was in the
\* registry before it is stored under the same key, its version one more than
\* before and its createdAt what it was
KeptWithNextVersion ==
  PassDone =>
    \A k \in 1..Len(before) :
      /\ ProfilesAt(registry, before[k].key) # {}
      /\ \A updated \in ProfilesAt(registry, before[k].key) :
           /\ updated.metadata.version = before[k].profile.metadata.version + 1
           /\ updated.metadata.createdAt = before[k].profile.metadata.createdAt

\* C9: whenever no pass is running, the profile stored under a registry key
\* has that key as its id
IdIsKey ==
  pc = "idle" => \A k \in 1..Len(registry) : registry[k].profile.id = registry[k].key

-----------------------------------------------------------------------------
\* One characterizeNarratives call on a batch of clusters.

MaxClusters == 3

RECURSIVE SeqsUpTo(_, _)
SeqsUpTo(S, n) ==
  IF n = 0 THEN {<<>>}
  ELSE SeqsUpTo(S, n - 1)
       \cup {Append(q, x) : q \in {r \in SeqsUpTo(S, n - 1) : Len(r) = n - 1}, x \in S}

InitCharBatch ==
  /\ tokens = <<>>
  /\ clusterOut = NotCalled
  /\ detectOut = NotDetected
  /\ registry = <<>>
  /\ now = 0
  /\ pc = "idle"
  /\ cursor = 0
  /\ updatedProfiles = <<>>
  /\ before = <<>>
  /\ charIn \in SeqsUpTo({CharClusters[c] : c \in 1..Len(CharClusters)}, MaxClusters)
  /\ charOut = NoBatchOut
  /\ ScoreIdle
  /\ HistoryIdle
  /\ WheelIdle
  /\ CallIdle
  /\ EngineIdle

\* characterizeNarratives(charIn)
CharacterizeNarratives ==
  /\ ~charOut.called
  /\ \E growths \in [1..Len(charIn) -> GrowthValues] :
       charOut' = characterizeNarratives(charIn, growths, now, registry)
  /\ registry' = charOut'.registry
  /\ UNCHANGED <<clusterVars, scoreVars, historyVars, wheelVars, callVars, now, pc, cursor, updatedProfiles, before, charIn, engineVars>>

NextCharBatch == CharacterizeNarratives

SpecCharBatch == InitCharBatch /\ [][NextCharBatch]_vars

\* what characterizeNarrative does with cluster k of the batch
ResultOf(k) == characterizeNarrative(charIn[k], charOut.growths[k], now)

\* C10: characterizeNarratives returns, and what it returns are the profiles
\* of the clusters whose characterization gave one, in the order of the batch:
\* no cluster after a failing one is skipped
SurvivorsInOrder ==
  charOut.called =>
    LET survivors == SelectSeq([k \in 1..Len(charIn) |-> ResultOf(k)],
                               LAMBDA result : result.outcome = "profile")
    IN  charOut.narratives = [k \in 1..Len(survivors) |-> survivors[k].profile]

\* a batch whose second cluster throws and whose first and third give
\* different profiles has been characterized
ThrowingClusterBetweenTwo ==
  /\ charOut.called
  /\ Len(charIn) = 3
  /\ ResultOf(1).outcome = "profile"
  /\ ResultOf(2).outcome = "throw"
  /\ ResultOf(3).outcome = "profile"
  /\ ResultOf(1).profile.id # ResultOf(3).profile.id
  /\ Len(charOut.narratives) = 2

-----------------------------------------------------------------------------
\* AdaptiveNarrativeScoringEngine.  Scores are in thousandths of a point,
\* component scores, bonuses and correlations in thousandths, multipliers in
\* tenths, money in thousands of dollars.

NullToken ==
  [isNull |-> TRUE, address |-> 0, volume24h |-> 0, marketCap |-> 0, priceChange24h |-> 0,
   liquidityUSD |-> 0, holders |-> 0, social |-> 0]

ScoreTokens ==
  << [isNull |-> FALSE, address |-> 1, volume24h |-> 600, marketCap |-> 1000,
      priceChange24h |-> 60, liquidityUSD |-> 50, holders |-> 500, social |-> 1000],
     [isNull |-> FALSE, address |-> 2, volume24h |-> 100, marketCap |-> 1000,
      priceChange24h |-> 10, liquidityUSD |-> 20, holders |-> 200, social |-> 100],
     [isNull |-> FALSE, address |-> 3, volume24h |-> 50, marketCap |-> 100,
      priceChange24h |-> -30, liquidityUSD |-> 5, holders |-> 50, social |-> 10] >>

NoCharacteristics == [present |-> FALSE, volatility |-> "", social |-> "", community |-> ""]

\* the narratives scored: two of one theme and stage over the same two tokens,
\* one whose strength the boost multiplier of index.js took past 100, and one
\* whose token list holds a null
ScoreNarratives ==
  << [id |-> 1, name |-> "pepe", theme |-> "PEPE NATION", stage |-> "growing",
      strength |-> 60, tokens |-> <<ScoreTokens[1], ScoreTokens[2]>>,
      characteristics |-> [present |-> TRUE, volatility |-> "high", social |-> "viral",
                           community |-> "large"]],
     [id |-> 2, name |-> "frogs", theme |-> "PEPE NATION", stage |-> "growing",
      strength |-> 70, tokens |-> <<ScoreTokens[2], ScoreTokens[1]>>,
      characteristics |-> NoCharacteristics],
     [id |-> 3, name |-> "robots", theme |-> "AI OVERLORDS", stage |-> "declining",
      strength |-> 120, tokens |-> <<ScoreTokens[3]>>,
      characteristics |-> NoCharacteristics],
     [id |-> 4, name |-> "broken", theme |-> "", stage |-> "",
      strength |-> 120, tokens |-> <<NullToken>>,
      characteristics |-> NoCharacteristics] >>

\* reading a property of a null token throws a TypeError
ReadsNullToken(narratives) ==
  \E k \in 1..Len(narratives) : \E t \in 1..Len(narratives[k].tokens) :
    narratives[k].tokens[t].isNull

Clamp(lo, hi, x) == Max2(lo, Min2(hi, x))

RECURSIVE MaxOf(_)
MaxOf(s) == IF s = <<>> THEN 0 ELSE Max2(Head(s), MaxOf(Tail(s)))

extractTotalVolume(narrative) ==
  SumSeq([t \in 1..Len(narrative.tokens) |-> narrative.tokens[t].volume24h])

extractTotalLiquidity(narrative) ==
  SumSeq([t \in 1..Len(narrative.tokens) |-> narrative.tokens[t].liquidityUSD])

extractTotalHolders(narrative) ==
  SumSeq([t \in 1..Len(narrative.tokens) |-> narrative.tokens[t].holders])

\* in thousandths of a percent
extractAvgPriceChange(narrative) ==
  IF Len(narrative.tokens) = 0 THEN 0
  ELSE (SumSeq([t \in 1..Len(narrative.tokens) |-> Abs(narrative.tokens[t].priceChange24h)])
        * 1000) \div Len(narrative.tokens)

extractSocialScore(narrative) ==
  SumSeq([t \in 1..Len(narrative.tokens) |-> narrative.tokens[t].social])

calculateMaxMetrics(narratives) ==
  [maxVolume |-> Max2(1, MaxOf([k \in 1..Len(narratives) |-> extractTotalVolume(narratives[k])])),
   maxLiquidity |-> Max2(1, MaxOf([k \in 1..Len(narratives) |-> extractTotalLiquidity(narratives[k])])),
   maxHolders |-> Max2(1, MaxOf([k \in 1..Len(narratives) |-> extractTotalHolders(narratives[k])])),
   maxPriceChange |-> Max2(1000, MaxOf([k \in 1..Len(narratives) |-> extractAvgPriceChange(narratives[k])])),
   maxSocial |-> Max2(1, MaxOf([k \in 1..Len(narratives) |-> extractSocialScore(narratives[k])]))]

\* calculateVolumeScore and the other four: Math.min(1, total / max)
ComponentScore(total, max) == Min2(1000, (total * 1000) \div max)

\* calculateBaseScores for one narrative
BaseScore(narrative, max, weights) ==
  LET components ==
        [volume |-> ComponentScore(extractTotalVolume(narrative), max.maxVolume),
         social |-> ComponentScore(extractSocialScore(narrative), max.maxSocial),
         liquidity |-> ComponentScore(extractTotalLiquidity(narrative), max.maxLiquidity),
         holders |-> ComponentScore(extractTotalHolders(narrative), max.maxHolders),
         priceVolatility |-> ComponentScore(Abs(extractAvgPriceChange(narrative)),
                                            Max2(1000, max.maxPriceChange))]
      baseScore == SumSeq([k \in 1..Len(WeightKeys) |->
                     (components[WeightKeys[k]] * weights.num[WeightKeys[k]] * 100)
                     \div weights.den])
  IN  [narrative |-> narrative, components |-> components,
       baseScore |-> Clamp(5000, 95000, baseScore)]

calculateBaseScores(narratives, weights) ==
  [k \in 1..Len(narratives) |->
     BaseScore(narratives[k], calculateMaxMetrics(narratives), weights)]

\* config.themeMultipliers and config.lifecycleMultipliers, as the entries of
\* each object in order
themeMultipliers ==
  [theme \in {"PEPE NATION", "AI OVERLORDS"} |->
     IF theme = "PEPE NATION"
     THEN << [component |-> "social", multiplier |-> 19],
             [component |-> "volatility", multiplier |-> 17],
             [component |-> "community", multiplier |-> 16],
             [component |-> "volume", multiplier |-> 15] >>
     ELSE << [component |-> "novelty", multiplier |-> 15],
             [component |-> "volume", multiplier |-> 14],
             [component |-> "social", multiplier |-> 13],
             [component |-> "volatility", multiplier |-> 13] >>]

lifecycleMultipliers ==
  [stage \in {"emerging", "growing", "peak", "declining", "mature"} |->
     CASE stage = "emerging" ->
            << [component |-> "social", multiplier |-> 16],
               [component |-> "volume", multiplier |-> 14],
               [component |-> "novelty", multiplier |-> 15],
               [component |-> "volatility", multiplier |-> 13] >>
       [] stage = "growing" ->
            << [component |-> "volume", multiplier |-> 15],
               [component |-> "social", multiplier |-> 14],
               [component |-> "community", multiplier |-> 13],
               [component |-> "holders", multiplier |-> 12] >>
       [] stage = "peak" ->
            << [component |-> "volume", multiplier |-> 13],
               [component |-> "liquidity", multiplier |-> 12],
               [component |-> "volatility", multiplier |-> 14],
               [component |-> "social", multiplier |-> 11] >>
       [] stage = "declining" ->
            << [component |-> "volume", multiplier |-> 7],
               [component |-> "social", multiplier |-> 8],
               [component |-> "liquidity", multiplier |-> 9],
               [component |-> "holders", multiplier |-> 8] >>
       [] OTHER ->
            << [component |-> "liquidity", multiplier |-> 12],
               [component |-> "holders", multiplier |-> 11],
               [component |-> "volume", multiplier |-> 10],
               [component |-> "social", multiplier |-> 9] >>]

\* multipliers[component], 0 standing for undefined
MultiplierOf(multipliers, component) ==
  LET found == SelectSeq(multipliers, LAMBDA entry : entry.component = component)
  IN  IF found = <<>> THEN 0 ELSE found[1].multiplier

getVolatilityBonus(level) ==
  CASE level = "stable" -> 100 [] level = "low" -> 300 [] level = "moderate" -> 600
    [] level = "high" -> 800 [] level = "extreme" -> 1000 [] OTHER -> 500

getSocialBonus(mentions) ==
  CASE mentions = "minimal" -> 100 [] mentions = "low" -> 300 [] mentions = "moderate" -> 600
    [] mentions = "high" -> 800 [] mentions = "viral" -> 1000 [] OTHER -> 500

getCommunityBonus(size) ==
  CASE size = "micro" -> 200 [] size = "small" -> 400 [] size = "medium" -> 600
    [] size = "large" -> 800 [] size = "massive" -> 1000 [] OTHER -> 500

\* getGrowthBonus of a temporal object without momentum
getGrowthBonus == 500

\* applyThemeAdjustments for one narrative
ThemeAdjusted(scoreData) ==
  LET narrative == scoreData.narrative
      known == narrative.theme \in DOMAIN themeMultipliers
      multipliers == themeMultipliers[narrative.theme]
      Bonus(component, bonus) ==
        IF MultiplierOf(multipliers, component) # 0 /\ narrative.characteristics.present
        THEN (bonus * MultiplierOf(multipliers, component)) \div 10
        ELSE 0
      adjustedScore ==
        scoreData.baseScore
        + Bonus("volatility", getVolatilityBonus(narrative.characteristics.volatility))
        + Bonus("social", getSocialBonus(narrative.characteristics.social))
        + Bonus("community", getCommunityBonus(narrative.characteristics.community))
        + Bonus("growth", getGrowthBonus)
  IN  IF known THEN Clamp(0, 100000, adjustedScore) ELSE scoreData.baseScore

getLifecycleMultiplier(lifecycle) ==
  CASE lifecycle = "emerging" -> 11 [] lifecycle = "growing" -> 12 [] lifecycle = "peak" -> 10
    [] lifecycle = "declining" -> 8 [] lifecycle = "stable" -> 9 [] OTHER -> 10

\* applyLifecycleAdjustments for one narrative
LifecycleAdjusted(scoreData, themeAdjustedScore) ==
  LET lifecycle == IF scoreData.narrative.stage = "" THEN "stable"
                   ELSE scoreData.narrative.stage
      multipliers == IF lifecycle \in DOMAIN lifecycleMultipliers
                     THEN lifecycleMultipliers[lifecycle] ELSE <<>>
      adjustments ==
        [k \in 1..Len(multipliers) |->
           IF multipliers[k].component \in DOMAIN scoreData.components
           THEN (scoreData.components[multipliers[k].component]
                 * (multipliers[k].multiplier - 10)) \div 100
           ELSE 0]
  IN  Clamp(0, 100000,
            ((themeAdjustedScore + SumSeq(adjustments)) * getLifecycleMultiplier(lifecycle))
            \div 10)

\* the whale bonus of one token, in points
TokenWhaleBonus(token) ==
  (IF token.volume24h > 0 /\ token.marketCap > 0
   THEN IF 2 * token.volume24h > token.marketCap THEN 3
        ELSE IF 5 * token.volume24h > token.marketCap THEN 1 ELSE 0
   ELSE 0)
  + (IF Abs(token.priceChange24h) > 50 THEN 2
     ELSE IF Abs(token.priceChange24h) > 20 THEN 1 ELSE 0)

\* applyWhaleActivityBonus for one narrative: its whaleAdjustedScore
WhaleAdjusted(narrative, lifecycleAdjustedScore) ==
  LET whaleBonus == Min2(5, SumSeq([t \in 1..Len(narrative.tokens) |->
                                      TokenWhaleBonus(narrative.tokens[t])]))
  IN  Clamp(0, 100000, lifecycleAdjustedScore + whaleBonus * 1000)

\* calculateTokenOverlap, in thousandths
calculateTokenOverlap(tokens1, tokens2) ==
  LET addresses1 == {tokens1[t].address : t \in 1..Len(tokens1)}
      addresses2 == {tokens2[t].address : t \in 1..Len(tokens2)}
  IN  IF Len(tokens1) = 0 \/ Len(tokens2) = 0 THEN 0
      ELSE (Cardinality(addresses1 \cap addresses2) * 1000)
           \div Min2(Cardinality(addresses1), Cardinality(addresses2))

\* calculatePairCorrelation, in thousandths: the sum of the factors that apply
\* divided by their number
calculatePairCorrelation(narrative1, narrative2) ==
  LET theme == narrative1.theme = narrative2.theme
      stage == narrative1.stage = narrative2.stage
      strength == Abs(narrative1.strength - narrative2.strength) < 20
      correlation == (IF theme THEN 600 ELSE 0) + (IF stage THEN 300 ELSE 0)
                     + (IF strength THEN 200 ELSE 0)
                     + (calculateTokenOverlap(narrative1.tokens, narrative2.tokens) * 400)
                       \div 1000
      factors == (IF theme THEN 1 ELSE 0) + (IF stage THEN 1 ELSE 0)
                 + (IF strength THEN 1 ELSE 0) + 1
  IN  correlation \div factors

\* correlations[key] = value on an object kept as its entries in order
SetProperty(object, key, value) ==
  IF \E k \in 1..Len(object) : object[k].key = key
  THEN [k \in 1..Len(object) |->
          IF object[k].key = key THEN [key |-> key, value |-> value] ELSE object[k]]
  ELSE Append(object, [key |-> key, value |-> value])

\* calculateCorrelationMatrix: the two loops from pair (i, j) on
RECURSIVE CorrelationLoop(_, _, _)
CorrelationLoop(narratives, pairs, correlations) ==
  IF pairs = <<>> THEN correlations
  ELSE LET narrative1 == narratives[Head(pairs)[1]]
           narrative2 == narratives[Head(pairs)[2]]
       IN  CorrelationLoop(narratives, Tail(pairs),
             SetProperty(correlations, <<narrative1.id, narrative2.id>>,
                         [narrative1 |-> narrative1.name, narrative2 |-> narrative2.name,
                          correlation |-> calculatePairCorrelation(narrative1, narrative2)]))

calculateCorrelationMatrix(narratives) ==
  CorrelationLoop(narratives, PairsFrom(1, 2, Len(narratives)), <<>>)

\* applyCorrelationAdjustments for one narrative: its correlationPenalty
CorrelationPenalty(narrative, correlations, threshold) ==
  SumSeq([k \in 1..Len(correlations) |->
    LET corr == correlations[k].value
    IN  IF (corr.narrative1 = narrative.name \/ corr.narrative2 = narrative.name)
           /\ Abs(corr.correlation) > threshold
        THEN IF corr.correlation > 0 THEN corr.correlation * 5 ELSE corr.correlation * 3
        ELSE 0])

classifyTrend(deltaScore, previousScore) ==
  LET deltaPercentOver(bound) ==
        previousScore > 0 /\ deltaScore * 100 > bound * previousScore
      deltaPercentUnder(bound) ==
        previousScore > 0 /\ deltaScore * 100 < bound * previousScore
  IN  IF deltaScore > 5000 \/ deltaPercentOver(10) THEN "rising"
      ELSE IF deltaScore < -5000 \/ deltaPercentUnder(-10) THEN "falling"
      ELSE "stable"

\* stages 1 to 7 for one narrative with no look at the score of last time
ScoredWithoutHistory(narrative, narratives, weights, correlations, threshold, history) ==
  LET scoreData == BaseScore(narrative, calculateMaxMetrics(narratives), weights)
      whaleAdjustedScore ==
        WhaleAdjusted(narrative, LifecycleAdjusted(scoreData, ThemeAdjusted(scoreData)))
      correlationPenalty == CorrelationPenalty(narrative, correlations, threshold)
      finalScore == Clamp(0, 100000, whaleAdjustedScore - correlationPenalty)
  IN  [id |-> narrative.id, name |-> narrative.name, strength |-> narrative.strength,
       finalScore |-> finalScore, rank |-> 0, components |-> scoreData.components,
       correlationPenalty |-> correlationPenalty,
       trend |-> classifyTrend(0, finalScore)]

\* stages 1 to 7 for one narrative: base score, theme, lifecycle and whale
\* adjustments, correlation penalty, delta against the score of last time
Scored(narrative, narratives, weights, correlations, threshold, history) ==
  LET scoreData == BaseScore(narrative, calculateMaxMetrics(narratives), weights)
      whaleAdjustedScore ==
        WhaleAdjusted(narrative, LifecycleAdjusted(scoreData, ThemeAdjusted(scoreData)))
      correlationPenalty == CorrelationPenalty(narrative, correlations, threshold)
      finalScore == Clamp(0, 100000, whaleAdjustedScore - correlationPenalty)
      previousScore == IF narrative.id \in DOMAIN history /\ history[narrative.id] # 0
                       THEN history[narrative.id] ELSE finalScore
  IN  [id |-> narrative.id, name |-> narrative.name, strength |-> narrative.strength,
       finalScore |-> finalScore, rank |-> 0, components |-> scoreData.components,
       correlationPenalty |-> correlationPenalty,
       trend |-> classifyTrend(finalScore - previousScore, previousScore)]

\* rankNarratives: by finalScore, highest first, ties in the order of the batch
rankNarratives(scoresWithDeltas) ==
  LET sorted == Items(SortDescending([k \in 1..Len(scoresWithDeltas) |->
                        [key |-> scoresWithDeltas[k].finalScore, item |-> scoresWithDeltas[k]]]))
  IN  [k \in 1..Len(sorted) |-> [sorted[k] EXCEPT !.rank = k]]

\* the components analyzeComponentPerformance looks for in each narrative
PerformanceComponents == <<"strength", "momentum", "community", "novelty", "correlation">>

\* analyzeComponentPerformance for one component, in thousandths: 0 when no
\* narrative has the component
ComponentPerformance(rankedNarratives, component) ==
  LET valid == SelectSeq(rankedNarratives,
                         LAMBDA narrative : component \in DOMAIN narrative.components)
      total == SumSeq([k \in 1..Len(valid) |->
                 (valid[k].components[component]
                  * (1000 - ((valid[k].rank - 1) * 1000) \div Len(rankedNarratives)))
                 \div 1000])
  IN  IF Len(valid) > 0 THEN total \div Len(valid) - 500 ELSE 0

\* the body of the forEach of adaptWeights for one component: a component that
\* is no key of baseWeights has an undefined weight, the new weight is NaN and
\* nothing is assigned
AdaptOne(weights, bounds, component, correlation) ==
  IF component \notin DOMAIN weights.num THEN weights
  ELSE LET currentWeight == (weights.num[component] * 1000) \div weights.den
           newWeight == Clamp(bounds.minWeight, bounds.maxWeight,
                              currentWeight + (correlation * bounds.adaptationRate) \div 1000)
       IN  IF Abs(newWeight - currentWeight) > 10
           THEN [num |-> [key \in DOMAIN weights.num |->
                            IF key = component THEN newWeight * weights.den
                            ELSE weights.num[key] * 1000],
                 den |-> weights.den * 1000]
           ELSE weights

RECURSIVE AdaptLoop(_, _, _, _)
AdaptLoop(weights, bounds, rankedNarratives, k) ==
  IF k > Len(PerformanceComponents) THEN weights
  ELSE AdaptLoop(AdaptOne(weights, bounds, PerformanceComponents[k],
                          ComponentPerformance(rankedNarratives, PerformanceComponents[k])),
                 bounds, rankedNarratives, k + 1)

\* normalizeWeights: each weight divided by the sum of the five, if positive
normalizeWeights(weights) ==
  LET sum == SumSeq([k \in 1..Len(WeightKeys) |-> weights.num[WeightKeys[k]]])
  IN  IF sum > 0 THEN [weights EXCEPT !.den = sum] ELSE weights

adaptWeights(weights, bounds, rankedNarratives) ==
  normalizeWeights(AdaptLoop(weights, bounds, rankedNarratives, 1))

\* updateScoreHistory from narrative k on
RECURSIVE updateScoreHistory(_, _, _)
updateScoreHistory(history, rankedNarratives, k) ==
  IF k > Len(rankedNarratives) THEN history
  ELSE updateScoreHistory(
         [id \in DOMAIN history \cup {rankedNarratives[k].id} |->
            IF id = rankedNarratives[k].id THEN rankedNarratives[k].finalScore
            ELSE history[id]],
         rankedNarratives, k + 1)

NoComponents == [volume |-> 0, social |-> 0, liquidity |-> 0, holders |-> 0, priceVolatility |-> 0]

\* the catch of calculateMemeCoinScores: finalScore is n.strength || 0
Fallback(narrative) ==
  [id |-> narrative.id, name |-> narrative.name, strength |-> narrative.strength,
   finalScore |-> narrative.strength * 1000, rank |-> 0, components |-> NoComponents,
   correlationPenalty |-> 0, trend |-> ""]

\* calculateMemeCoinScores(narratives): what it returns and the weights and the
\* score history it leaves
calculateMemeCoinScores(narratives, weights, bounds, history) ==
  IF Len(narratives) = 0
  THEN [result |-> [path |-> "empty", rankedNarratives |-> <<>>, correlations |-> <<>>],
        weights |-> weights, history |-> history]
  ELSE IF ReadsNullToken(narratives)
  THEN [result |-> [path |-> "fallback",
                    rankedNarratives |-> [k \in 1..Len(narratives) |-> Fallback(narratives[k])],
                    correlations |-> <<>>],
        weights |-> weights, history |-> history]
  ELSE Only({ Only({
         [result |-> [path |-> "normal", rankedNarratives |-> rankedNarratives,
                      correlations |-> correlations],
          weights |-> adaptWeights(weights, bounds, rankedNarratives),
          history |-> updateScoreHistory(history, rankedNarratives, 1)]
         : rankedNarratives \in
             {rankNarratives([k \in 1..Len(narratives) |->
                Scored(narratives[k], narratives, weights, correlations,
                       bounds.correlationThreshold, history)])} })
         : correlations \in {calculateCorrelationMatrix(narratives)} })

-----------------------------------------------------------------------------
\* The scoring engine: constructed with or without a volumeWeight and a
\* maxWeight option, then handed batches of narratives.

MaxNarratives == 2

VolumeWeightOptions == {350, 900}
MaxWeightOptions == {300, 500}

InitScore ==
  /\ tokens = <<>>
  /\ clusterOut = NotCalled
  /\ detectOut = NotDetected
  /\ CharIdle
  /\ config \in {ConfiguredBounds(option) : option \in MaxWeightOptions}
  /\ baseWeights \in {ConfiguredWeights(option) : option \in VolumeWeightOptions}
  /\ lastScores = <<>>
  /\ scoreIn = <<>>
  /\ scoreOut = NoScores
  /\ HistoryIdle
  /\ WheelIdle
  /\ CallIdle
  /\ EngineIdle

\* calculateMemeCoinScores(narratives)
CalculateMemeCoinScores ==
  \E narratives \in SeqsUpTo({ScoreNarratives[k] : k \in 1..Len(ScoreNarratives)}, MaxNarratives) :
    \E outcome \in {calculateMemeCoinScores(narratives, baseWeights, config, lastScores)} :
      /\ scoreIn' = narratives
      /\ scoreOut' = outcome.result
      /\ baseWeights' = outcome.weights
      /\ lastScores' = outcome.history
      /\ UNCHANGED <<clusterVars, charVars, historyVars, wheelVars, callVars, config, engineVars>>

NextScore == CalculateMemeCoinScores

SpecScore == InitScore /\ [][NextScore]_vars

\* C2: every narrative in the rankedNarratives calculateMemeCoinScores returned,
\* on the normal path and on the fallback of its catch, has a finalScore
\* within [0,100]
FinalScoreWithinRange ==
  \A k \in 1..Len(scoreOut.rankedNarratives) :
    /\ 0 <= scoreOut.rankedNarratives[k].finalScore
    /\ scoreOut.rankedNarratives[k].finalScore <= 100000

\* narratives i and j of the batch are two narratives with full token overlap, the same primary
\* theme and the same lifecycle stage
FullyCorrelated(i, j) ==
  /\ scoreIn[i].id # scoreIn[j].id
  /\ calculateTokenOverlap(scoreIn[i].tokens, scoreIn[j].tokens) = 1000
  /\ scoreIn[i].theme = scoreIn[j].theme
  /\ scoreIn[i].stage = scoreIn[j].stage

\* C5: when two narratives of a batch scored on the normal path have full
\* token overlap, the same primary theme and the same lifecycle stage, each of
\* them has a strictly positive correlationPenalty, under the default threshold
FullOverlapIsPenalized ==
  scoreOut.path = "normal" /\ config.correlationThreshold = correlationThreshold =>
    \A i, j \in 1..Len(scoreIn) :
      FullyCorrelated(i, j) =>
        \A k \in 1..Len(scoreOut.rankedNarratives) :
          scoreOut.rankedNarratives[k].id = scoreIn[i].id =>
            scoreOut.rankedNarratives[k].correlationPenalty > 0

\* C6: after a scoring pass that reached adaptWeights, the five base weights
\* sum to 1 and each lies within [minWeight, maxWeight]
WeightsNormalizedWithinBounds ==
  scoreOut.path = "normal" =>
    /\ SumSeq([k \in 1..Len(WeightKeys) |-> baseWeights.num[WeightKeys[k]]]) = baseWeights.den
    /\ \A k \in 1..Len(WeightKeys) :
         /\ config.minWeight * baseWeights.den <= baseWeights.num[WeightKeys[k]] * 1000
         /\ baseWeights.num[WeightKeys[k]] * 1000 <= config.maxWeight * baseWeights.den

-----------------------------------------------------------------------------
\* C11: when a stage of the scorer throws, calculateMemeCoinScores returns
\* every input narrative, in the order of descending strength, each with its
\* strength as finalScore
FallbackRankedByStrength ==
  scoreOut.path = "fallback" =>
    /\ Len(scoreOut.rankedNarratives) = Len(scoreIn)
    /\ \A k \in 1..Len(scoreOut.rankedNarratives) :
         scoreOut.rankedNarratives[k].finalScore = scoreOut.rankedNarratives[k].strength * 1000
    /\ \A k \in 1..(Len(scoreOut.rankedNarratives) - 1) :
         scoreOut.rankedNarratives[k].strength >= scoreOut.rankedNarratives[k + 1].strength

\* the candidates of the batch: the narratives of the clusters performClustering
\* finds (each of at least minClusterSize tokens) whose strength is at least
\* minNarrativeStrength
Candidates(toks) ==
  IF Len(toks) < minClusterSize THEN <<>>
  ELSE analyzeNarrativeCandidates(performClustering(toks, calculateSimilarityMatrix(toks)))

\* the keywords of the narrative match a keyword of a known pattern
SharesKnownTheme(narrative) ==
  \E c \in 1..Len(knownPatterns) : PatternMatches(narrative.keywords, knownPatterns[c]) > 0

\* C12: every cluster of processTokens that is strong enough and whose tokens
\* share keywords of a known theme is among the narratives returned, with
\* those keywords
KnownThemeClusterReported ==
  detectOut.called =>
    \A candidate \in {Candidates(tokens)[k] : k \in 1..Len(Candidates(tokens))} :
      SharesKnownTheme(candidate) =>
        \E k \in 1..Len(detectOut.narratives) :
          /\ detectOut.narratives[k].keywords = candidate.keywords
          /\ detectOut.narratives[k].id = candidate.id

-----------------------------------------------------------------------------
\* The server of index.js: the aggregation runs that write wheelState, which
\* /api/wheel-state serves.  Scores and avgConfidence are in points, strength
\* and confidence in hundredths.

MaxRuns == 2

\* what generateNarrativesFromTokens may return as narratives.data: count
\* narratives of one score, strength and confidence
WheelCounts == {0, 3, 5, 8}
WheelStrengths == {20, 50}
WheelConfidences == {40, 70}

WheelData(count, strength, confidence) ==
  [k \in 1..count |-> [score |-> 60, strength |-> strength, confidence |-> confidence]]

\* the status aggregateData sets (its "Step 7")
AggregateStatus(narrativeCount, confidenceSum, narratives) ==
  LET strengthSum == SumSeq([k \in 1..Len(narratives) |-> narratives[k].strength])
      size == Max2(Len(narratives), 1)
      \* avgConfidence >= bound, avgConfidence being 85 for no narrative
      ConfidenceAtLeast(bound) ==
        IF narrativeCount > 0 THEN confidenceSum >= bound * narrativeCount ELSE 85 >= bound
      StrengthAtLeast(bound) == strengthSum >= bound * size
  IN  IF narrativeCount >= 8
      THEN IF ConfidenceAtLeast(70) /\ StrengthAtLeast(40) THEN "active"
           ELSE IF ConfidenceAtLeast(50) \/ StrengthAtLeast(30) THEN "spinning"
           ELSE "slow"
      ELSE IF narrativeCount >= 5
      THEN IF ConfidenceAtLeast(60) /\ StrengthAtLeast(30) THEN "spinning" ELSE "slow"
      ELSE IF narrativeCount >= 3 THEN "slow"
      ELSE "stopped"

\* the status fallbackAggregation sets
FallbackStatus(narratives) ==
  LET narrativeCount == Len(narratives)
      scoreSum == SumSeq([k \in 1..Len(narratives) |-> narratives[k].score])
      ScoreAtLeast(bound) == scoreSum >= bound * Max2(narrativeCount, 1)
  IN  IF narrativeCount >= 8 /\ ScoreAtLeast(50) THEN "active"
      ELSE IF narrativeCount >= 5 /\ ScoreAtLeast(30) THEN "spinning"
      ELSE IF narrativeCount >= 3 /\ ScoreAtLeast(15) THEN "slow"
      ELSE "stopped"

InitWheel ==
  /\ tokens = <<>>
  /\ clusterOut = NotCalled
  /\ detectOut = NotDetected
  /\ CharIdle
  /\ ScoreIdle
  /\ HistoryIdle
  /\ wheel \in {WheelAtStart(initialized) : initialized \in BOOLEAN}
  /\ runs = 0
  /\ CallIdle
  /\ EngineIdle

\* aggregateData with the engines initialized and no exception
AggregateData ==
  /\ runs < MaxRuns
  /\ wheel.engineInitialized
  /\ \E count \in WheelCounts, strength \in WheelStrengths, confidence \in WheelConfidences :
       LET data == WheelData(count, strength, confidence)
           narratives == IF count > 0 THEN data ELSE wheel.narratives
           confidenceSum == SumSeq([k \in 1..count |-> data[k].confidence])
       IN  wheel' = [wheel EXCEPT
                       !.narratives = narratives,
                       !.avgConfidence = IF count > 0 THEN confidenceSum \div count ELSE 85,
                       !.status = AggregateStatus(count, confidenceSum, narratives)]
  /\ runs' = runs + 1
  /\ UNCHANGED <<clusterVars, charVars, scoreVars, historyVars, callVars, engineVars>>

\* fallbackAggregation, which aggregateData runs when the engines are not
\* initialized or when fetching or analysing the tokens throws: each score
\* moves by a random change and avgConfidence by a random drift
FallbackAggregation ==
  /\ runs < MaxRuns
  /\ \E changes \in [1..Len(wheel.narratives) -> {-5, 5}], drift \in {-2, 2} :
       LET narratives == [k \in 1..Len(wheel.narratives) |->
                            [wheel.narratives[k] EXCEPT
                               !.score = Max2(0, Min2(100, @ + changes[k]))]]
       IN  wheel' = [wheel EXCEPT
                       !.narratives = narratives,
                       !.avgConfidence = Min2(100, @ + drift),
                       !.status = FallbackStatus(narratives)]
  /\ runs' = runs + 1
  /\ UNCHANGED <<clusterVars, charVars, scoreVars, historyVars, callVars, engineVars>>

NextWheel == AggregateData \/ FallbackAggregation

SpecWheel == InitWheel /\ [][NextWheel]_vars

\* C13: the status of the wheel state is always one of the documented visual
\* states alive, stressed and dead
StatusIsVisualState == wheel.status \in {"alive", "stressed", "dead"}

\* C14: the narrative registry is bounded by a retention depth, the oldest
\* profile being evicted when a new one would exceed it: whatever sizes the
\* calls are allowed to build up to, the registry stays below the largest,
\* because an eviction makes room first
RegistryWithinRetentionDepth == Len(registry) < MaxProfiles

\* the registry after the profiles of `profiles` have been set in it, in order
RECURSIVE SetAll(_, _)
SetAll(map, profiles) ==
  IF profiles = <<>> THEN map
  ELSE SetAll(MapSet(map, Head(profiles).id, Head(profiles)), Tail(profiles))

\* C16: a cluster whose characterization fails (null or an exception) leaves
\* the registry as it was: the registry after the batch is the one that the
\* profiles of the succeeding clusters alone build, in the order of the batch,
\* and a batch of failing clusters only leaves the registry as it found it
FailureLeavesRegistry ==
  charOut.called =>
    \A outcomes \in {[k \in 1..Len(charIn) |-> ResultOf(k)]} :
      \A succeeded \in {SelectSeq(outcomes, LAMBDA result : result.outcome = "profile")} :
        /\ registry = SetAll(<<>>, [k \in 1..Len(succeeded) |-> succeeded[k].profile])
        /\ succeeded = <<>> => registry = <<>>

\* a batch with a cluster that returns null, a cluster that throws and a
\* cluster whose profile is stored
FailuresAmongStored ==
  /\ charOut.called
  /\ \E k \in 1..Len(charIn) : ResultOf(k).outcome = "null"
  /\ \E k \in 1..Len(charIn) : ResultOf(k).outcome = "throw"
  /\ Len(registry) > 0

-----------------------------------------------------------------------------
\* The cluster history over a sequence of clustering runs: each run ends in
\* trackClusterEvolution(bestResult.clusters).

MaxClock == 11

\* the clusters a run may hand over: one cluster of three tokens of a kind, or
\* two such clusters
ClusterOf(id, kind) ==
  [id |-> id, tokens |-> [i \in 1..minClusterSize |-> [address |-> i, vec |-> TokenKinds[kind].vec]]]

ClusterLists == {<<ClusterOf(0, 1)>>, <<ClusterOf(0, 2), ClusterOf(1, 3)>>}

InitHistory ==
  /\ tokens = <<>>
  /\ clusterOut = NotCalled
  /\ detectOut = NotDetected
  /\ CharIdle
  /\ ScoreIdle
  /\ HistoryIdle
  /\ WheelIdle
  /\ CallIdle
  /\ EngineIdle

\* trackClusterEvolution(clusters), Date.now() being clock
TrackClusterEvolution ==
  /\ \E clusters \in ClusterLists :
       clusterHistory' = trackClusterEvolution(clusterHistory, clusters, clock)
  /\ UNCHANGED <<clusterVars, charVars, scoreVars, clock, wheelVars, callVars, engineVars>>

\* the next run reads a later Date.now(): clock counts the distinct values
\* the runs have read
LaterRun ==
  /\ clock < MaxClock
  /\ clock \in DOMAIN clusterHistory
  /\ clock' = clock + 1
  /\ UNCHANGED <<clusterVars, charVars, scoreVars, clusterHistory, wheelVars, callVars, engineVars>>

NextHistory == TrackClusterEvolution \/ LaterRun

SpecHistory == InitHistory /\ [][NextHistory]_vars

\* C15: the history holds at most 10 snapshots after every
\* trackClusterEvolution call, and a snapshot goes only when the history is
\* full, the one that goes being older than every snapshot kept
HistoryKeepsLatest ==
  [][/\ Cardinality(DOMAIN clusterHistory') <= historyDepth
     /\ \A gone \in DOMAIN clusterHistory \ DOMAIN clusterHistory' :
          /\ Cardinality(DOMAIN clusterHistory') = historyDepth
          /\ \A kept \in DOMAIN clusterHistory' : gone < kept
     /\ clusterHistory' # clusterHistory => clock \in DOMAIN clusterHistory']_vars

\* the history is full and the snapshot of the first run has been evicted
FirstSnapshotEvicted ==
  /\ Cardinality(DOMAIN clusterHistory) = historyDepth
  /\ 0 \notin DOMAIN clusterHistory
  /\ clock \in DOMAIN clusterHistory

-----------------------------------------------------------------------------
\* selectBestClustering on the results of the three strategies.

SelectBatch == 5

\* the shapes a strategy's result can have on a batch of SelectBatch tokens:
\* up to two clusters, the tokens in no cluster being the outliers
ClusterSizes ==
  {sizes \in SeqsUpTo(1..SelectBatch, 2) : SumSeq(sizes) <= SelectBatch}

TokensFrom(first, count) ==
  [i \in 1..count |-> [address |-> first + i - 1, vec |-> TokenKinds[1].vec]]

ResultOfShape(algorithm, sizes) ==
  [algorithm |-> algorithm,
   clusters |-> [c \in 1..Len(sizes) |->
                   [id |-> c - 1,
                    tokens |-> TokensFrom(1 + SumSeq(SubSeq(sizes, 1, c - 1)), sizes[c])]],
   outliers |-> TokensFrom(1 + SumSeq(sizes), SelectBatch - SumSeq(sizes))]

InitSelect ==
  /\ tokens = <<>>
  /\ clusterOut = NotCalled
  /\ detectOut = NotDetected
  /\ CharIdle
  /\ ScoreIdle
  /\ HistoryIdle
  /\ WheelIdle
  /\ selectIn \in {<<ResultOfShape("kmeans", k), ResultOfShape("dbscan", d),
                     ResultOfShape("hierarchical", h)>>
                   : k \in ClusterSizes, d \in ClusterSizes, h \in ClusterSizes}
  /\ selectOut = NotSelected
  /\ dbscanIn = <<>>
  /\ dbscanOut = NoLabels
  /\ hierarchicalIn = <<>>
  /\ hierarchicalOut = NoDendrogram
  /\ lifecycleIn = NoLifecycleIn
  /\ lifecycleOut = NoStage
  /\ EngineIdle

\* selectBestClustering(selectIn)
SelectBestClustering ==
  /\ ~selectOut.called
  /\ \E best \in {selectBestClustering(selectIn)} :
       selectOut' = [called |-> TRUE, algorithm |-> best.algorithm,
                     clusters |-> best.clusters, outliers |-> best.outliers]
  /\ UNCHANGED <<clusterVars, charVars, scoreVars, historyVars, wheelVars, selectIn,
                 dbscanIn, dbscanOut, hierarchicalIn, hierarchicalOut, lifecycleIn, lifecycleOut, engineVars>>

NextSelect == SelectBestClustering

SpecSelect == InitSelect /\ [][NextSelect]_vars

\* the candidates that have at least one cluster
ValidCandidates == {k \in 1..Len(selectIn) : Len(selectIn[k].clusters) > 0}

IsSelected(k) ==
  /\ selectOut.algorithm = selectIn[k].algorithm
  /\ selectOut.clusters = selectIn[k].clusters
  /\ selectOut.outliers = selectIn[k].outliers

\* C17: selectBestClustering returns a candidate with at least one cluster
\* whose composite score no such candidate exceeds and no earlier such
\* candidate equals; when no candidate has a cluster it returns the first
SelectedIsEarliestBest ==
  selectOut.called =>
    IF ValidCandidates = {} THEN IsSelected(1)
    ELSE \E k \in ValidCandidates :
           /\ IsSelected(k)
           /\ \A j \in ValidCandidates :
                /\ ~FracLess(compositeScore(selectIn[k]), compositeScore(selectIn[j]))
                /\ j < k => FracLess(compositeScore(selectIn[j]), compositeScore(selectIn[k]))

\* the second and third candidate tie at the highest score, above the first,
\* and the selection has been made
LaterCandidatesTie ==
  /\ selectOut.called
  /\ ValidCandidates = {1, 2, 3}
  /\ compositeScore(selectIn[2]) = compositeScore(selectIn[3])
  /\ FracLess(compositeScore(selectIn[1]), compositeScore(selectIn[2]))

-----------------------------------------------------------------------------
\* dbscan and hierarchicalClustering on the vectors of a batch.

MaxPoints == 5

\* the coordinates of a point, on the scale of the distances (3 is 0.3)
PointValues == {0, 3, 5, 9}

InitPartition ==
  /\ tokens = <<>>
  /\ clusterOut = NotCalled
  /\ detectOut = NotDetected
  /\ CharIdle
  /\ ScoreIdle
  /\ HistoryIdle
  /\ WheelIdle
  /\ selectIn = <<>>
  /\ selectOut = NotSelected
  /\ dbscanIn \in UNION {[1..n -> PointValues] : n \in 0..MaxPoints}
  /\ dbscanOut = NoLabels
  /\ hierarchicalIn = calculateDistanceMatrix(dbscanIn)
  /\ hierarchicalOut = NoDendrogram
  /\ lifecycleIn = NoLifecycleIn
  /\ lifecycleOut = NoStage
  /\ EngineIdle

\* dbscan(vectors, eps, minPts) as performDBSCANClustering calls it
Dbscan ==
  /\ ~dbscanOut.called
  /\ dbscanOut' = [called |-> TRUE, labels |-> dbscan(dbscanIn, dbscanEps, dbscanMinPts)]
  /\ UNCHANGED <<clusterVars, charVars, scoreVars, historyVars, wheelVars, selectIn, selectOut,
                 dbscanIn, hierarchicalIn, hierarchicalOut, lifecycleIn, lifecycleOut, engineVars>>

\* hierarchicalClustering(distanceMatrix, threshold) as
\* performHierarchicalClustering calls it: the matrix is left as the loop
\* last saw it
HierarchicalClustering ==
  /\ ~hierarchicalOut.called
  /\ \E result \in {hierarchicalClustering(hierarchicalIn, hierarchicalThreshold)} :
       /\ hierarchicalOut' = [called |-> TRUE, labels |-> result.labels,
                              dendrogram |-> result.dendrogram]
       /\ hierarchicalIn' = result.matrix
  /\ UNCHANGED <<clusterVars, charVars, scoreVars, historyVars, wheelVars, selectIn, selectOut,
                 dbscanIn, dbscanOut, lifecycleIn, lifecycleOut, engineVars>>

NextPartition == Dbscan \/ HierarchicalClustering

SpecPartition == InitPartition /\ [][NextPartition]_vars

\* a core point: at least minPts other points within eps
IsCore(i) == Len(findNeighbors(dbscanIn, i, dbscanEps)) >= dbscanMinPts

\* the points density-reachable from the points of `reached`
RECURSIVE Reachable(_)
Reachable(reached) ==
  LET next == reached \cup {q \in 1..Len(dbscanIn) :
                              \E p \in reached :
                                 IsCore(p) /\ InSeq(q, findNeighbors(dbscanIn, p, dbscanEps))}
  IN  IF next = reached THEN reached ELSE Reachable(next)

\* C18: every point density-reachable from a core point through a chain of
\* core points is in a cluster, and every core point so reached has the
\* label of the core point the chain starts from
ReachablePointsJoinCluster ==
  dbscanOut.called =>
    \A seed \in {i \in 1..Len(dbscanIn) : IsCore(i)} :
      \A q \in Reachable({seed}) :
        /\ dbscanOut.labels[q] # -1
        /\ IsCore(q) => dbscanOut.labels[q] = dbscanOut.labels[seed]

\* the distances of the matrix are those of the vectors times this
MatrixScale == Pow2(Len(dbscanIn))

\* C19: hierarchicalClustering returns after at most N - 1 merges, every
\* merge of the merge history has a distance of at most the threshold, and
\* the matrix it leaves has no pair of remaining clusters within the
\* threshold; each merge makes one cluster of two
MergesBoundedByThreshold ==
  hierarchicalOut.called =>
    /\ Len(hierarchicalOut.dendrogram) <= Max2(Len(dbscanIn) - 1, 0)
    /\ \A m \in 1..Len(hierarchicalOut.dendrogram) :
         hierarchicalOut.dendrogram[m].distance <= hierarchicalThreshold * MatrixScale
    /\ \A i \in 1..Len(hierarchicalIn) : \A j \in (i + 1)..Len(hierarchicalIn) :
         hierarchicalIn[i][j] > hierarchicalThreshold * MatrixScale
    /\ Cardinality({hierarchicalOut.labels[k] : k \in 1..Len(dbscanIn)})
         = Len(dbscanIn) - Len(hierarchicalOut.dendrogram)

\* two merges made and two clusters left that are too far apart to merge
MergedTwiceAndStopped ==
  /\ hierarchicalOut.called
  /\ Len(hierarchicalOut.dendrogram) >= 2
  /\ Cardinality({hierarchicalOut.labels[k] : k \in 1..Len(dbscanIn)}) >= 2

-----------------------------------------------------------------------------
\* determineLifecycleStage on a cluster and the characteristics of a caller.

\* cluster.strength, times 1000
LifecycleStrengths == {20000, 50000, 70000, 80000, 90000, 100000}

\* characteristics.temporal.momentum, times 1000: the values calculateMomentum
\* gives, and a negative one, which only a caller's own characteristics carry
LifecycleMomenta == {-100, 0, 100, 300, 600, 800}

\* characteristics.temporal.age: the words categorizeNarrativeAge returns
LifecycleAges == {"new", "fresh", "mature", "established"}

InitLifecycle ==
  /\ tokens = <<>>
  /\ clusterOut = NotCalled
  /\ detectOut = NotDetected
  /\ CharIdle
  /\ ScoreIdle
  /\ HistoryIdle
  /\ WheelIdle
  /\ selectIn = <<>>
  /\ selectOut = NotSelected
  /\ dbscanIn = <<>>
  /\ dbscanOut = NoLabels
  /\ hierarchicalIn = <<>>
  /\ hierarchicalOut = NoDendrogram
  /\ lifecycleIn \in [strength : LifecycleStrengths, momentum : LifecycleMomenta,
                      growth : GrowthValues, age : LifecycleAges]
  /\ lifecycleOut = NoStage
  /\ EngineIdle

\* determineLifecycleStage(cluster, characteristics)
DetermineLifecycleStage ==
  /\ ~lifecycleOut.called
  /\ \E lifecycle \in {determineLifecycleStage(
                         [strength |-> Num(lifecycleIn.strength)],
                         [temporal |-> [momentum |-> lifecycleIn.momentum,
                                        age |-> lifecycleIn.age],
                          community |-> [growth |-> lifecycleIn.growth]])} :
       lifecycleOut' = [called |-> TRUE, stage |-> lifecycle.stage, score |-> lifecycle.score]
  /\ UNCHANGED <<clusterVars, charVars, scoreVars, historyVars, wheelVars, selectIn, selectOut,
                 dbscanIn, dbscanOut, hierarchicalIn, hierarchicalOut, lifecycleIn, engineVars>>

NextLifecycle == DetermineLifecycleStage

SpecLifecycle == InitLifecycle /\ [][NextLifecycle]_vars

-----------------------------------------------------------------------------
\* applyLifecycleAdjustments on the scoreData of one narrative.

\* narrative.lifecycle.stage: "" stands for a narrative without one
AdjustStages == {"", "emerging", "growing", "peak", "declining", "mature"}

\* themeAdjustedScore, times 1000
AdjustScores == {0, 20000, 50000, 80000, 100000}

\* components of calculateBaseScores, times 1000
AdjustComponents ==
  {NoComponents,
   [volume |-> 1000, social |-> 500, liquidity |-> 1000, holders |-> 200, priceVolatility |-> 0],
   [volume |-> 300, social |-> 1000, liquidity |-> 0, holders |-> 1000, priceVolatility |-> 700]}

InitAdjust ==
  /\ tokens = <<>>
  /\ clusterOut = NotCalled
  /\ detectOut = NotDetected
  /\ CharIdle
  /\ ScoreIdle
  /\ HistoryIdle
  /\ WheelIdle
  /\ CallIdle
  /\ adjustIn \in [stage : AdjustStages, themeAdjustedScore : AdjustScores,
                   components : AdjustComponents]
  /\ adjustOut = NotAdjusted
  /\ featureCache = <<>>
  /\ extracted = NotExtracted
  /\ trackedNarrative = NoNarrative
  /\ elapsed = 0
  /\ inFlight = 0

\* the callback of applyLifecycleAdjustments for adjustIn
ApplyLifecycleAdjustments ==
  /\ ~adjustOut.called
  /\ adjustOut' =
       [called |-> TRUE,
        lifecycleAdjustedScore |->
          LifecycleAdjusted([narrative |-> [stage |-> adjustIn.stage],
                             components |-> adjustIn.components],
                            adjustIn.themeAdjustedScore),
        lifecycleMultiplier |->
          getLifecycleMultiplier(IF adjustIn.stage = "" THEN "stable" ELSE adjustIn.stage)]
  /\ UNCHANGED <<clusterVars, charVars, scoreVars, historyVars, wheelVars, callVars, adjustIn,
                 featureCache, extracted, trackedNarrative, elapsed, inFlight>>

NextAdjust == ApplyLifecycleAdjustments

SpecAdjust == InitAdjust /\ [][NextAdjust]_vars

\* C21: the stage base-multiplier of the lifecycle adjustment is 1.1 for
\* emerging, 1.2 for growing, 1.0 for peak, 0.8 for declining and 0.9 for
\* mature (in tenths)
StageBaseMultiplierAsListed ==
  adjustOut.called =>
    /\ adjustIn.stage = "emerging" => adjustOut.lifecycleMultiplier = 11
    /\ adjustIn.stage = "growing" => adjustOut.lifecycleMultiplier = 12
    /\ adjustIn.stage = "peak" => adjustOut.lifecycleMultiplier = 10
    /\ adjustIn.stage = "declining" => adjustOut.lifecycleMultiplier = 8
    /\ adjustIn.stage = "mature" => adjustOut.lifecycleMultiplier = 9

-----------------------------------------------------------------------------
\* the factor calculateNarrativeStrength applies for cluster k of the batch
\* (in tenths): stageMultipliers[characteristics.temporal.stage] || 1.0 of the
\* characteristics step 4 computed for it
AppliedStageMultiplier(k) ==
  StageMultiplier(calculateNarrativeCharacteristics(charIn[k], charOut.growths[k]).temporal)

\* C22: the strength of a profile is the summed strength times the multiplier
\* of the lifecycle stage determined for the same cluster in the same
\* characterization: 0.8 for emerging, 1.2 for growing, 1.0 for peak and 0.6
\* for declining
StrengthUsesStageOfCluster ==
  charOut.called =>
    \A k \in 1..Len(charIn) :
      \A result \in {ResultOf(k)} :
        result.outcome = "profile" =>
          /\ result.profile.lifecycle.stage = "emerging" => AppliedStageMultiplier(k) = 8
          /\ result.profile.lifecycle.stage = "growing" => AppliedStageMultiplier(k) = 12
          /\ result.profile.lifecycle.stage = "peak" => AppliedStageMultiplier(k) = 10
          /\ result.profile.lifecycle.stage = "declining" => AppliedStageMultiplier(k) = 6

-----------------------------------------------------------------------------
-----------------------------------------------------------------------------
\* the weight of one base component, in thousandths
WeightOf(weights, component) == (weights.num[component] * 1000) \div weights.den

\* the weight of a base component, in thousandths, moved by adaptationRate times
\* the correlation of its values with the rank, before the renormalization
MovedByCorrelation(weights, bounds, rankedNarratives, component) ==
  LET currentWeight == WeightOf(weights, component)
      correlation == ComponentPerformance(rankedNarratives, component)
      newWeight == Clamp(bounds.minWeight, bounds.maxWeight,
                         currentWeight + (correlation * bounds.adaptationRate) \div 1000)
  IN  IF Abs(newWeight - currentWeight) > 10 THEN newWeight ELSE currentWeight

\* C24: after a normal pass the weights are the weights of before with every
\* base component (volume, social, liquidity, holders, priceVolatility) moved
\* by adaptationRate times the correlation of its values with the rank, inside
\* [minWeight, maxWeight], and renormalized (to a thousandth): a component that
\* correlates is moved toward the sign of its correlation
WeightMovesWithCorrelation ==
  [][scoreOut'.path = "normal" =>
       \A moved \in {[k \in 1..Len(WeightKeys) |->
                        MovedByCorrelation(baseWeights, config, scoreOut'.rankedNarratives,
                                           WeightKeys[k])]} :
         \A k \in 1..Len(WeightKeys) :
           Abs(WeightOf(baseWeights', WeightKeys[k]) - (moved[k] * 1000) \div SumSeq(moved)) <= 1]_vars

-----------------------------------------------------------------------------
\* The feature cache of the clustering engine: extractAllFeatures is handed
\* batches of token descriptors while the clock Date.now() reads moves on.

MaxStamp == 2
MaxExtract == 2

\* token descriptors: with an updatedAt, or without the field
FeatureTokens ==
  {[address |-> address, hasUpdatedAt |-> stamp # 0, updatedAt |-> stamp, vec |-> 2 * address + 1] :
     address \in {1, 2}, stamp \in {0, 100, 101}}

\* `${token.address}_${token.updatedAt || Date.now()}`: the two parts of the key
cacheKey(token, dateNow) ==
  <<token.address, IF token.hasUpdatedAt /\ token.updatedAt # 0 THEN token.updatedAt ELSE dateNow>>

\* the for loop of extractAllFeatures from token k on
RECURSIVE ExtractLoop(_, _, _, _, _)
ExtractLoop(cache, toks, dateNow, k, out) ==
  IF k > Len(toks) THEN [cache |-> cache, features |-> out.features, cached |-> out.cached]
  ELSE LET key == cacheKey(toks[k], dateNow)
           tokenFeatures == [token |-> toks[k], vector |-> Vector(toks[k])]
       IN  IF key \in DOMAIN cache
           THEN ExtractLoop(cache, toks, dateNow, k + 1,
                            [features |-> Append(out.features, cache[key]),
                             cached |-> Append(out.cached, TRUE)])
           ELSE ExtractLoop([entry \in DOMAIN cache \cup {key} |->
                               IF entry = key THEN tokenFeatures ELSE cache[entry]],
                            toks, dateNow, k + 1,
                            [features |-> Append(out.features, tokenFeatures),
                             cached |-> Append(out.cached, FALSE)])

extractAllFeatures(cache, toks, dateNow) ==
  ExtractLoop(cache, toks, dateNow, 1, [features |-> <<>>, cached |-> <<>>])

InitFeatures ==
  /\ tokens = <<>>
  /\ clusterOut = NotCalled
  /\ detectOut = NotDetected
  /\ CharIdle
  /\ ScoreIdle
  /\ HistoryIdle
  /\ WheelIdle
  /\ CallIdle
  /\ EngineIdle

\* extractAllFeatures(tokens), Date.now() being clock
ExtractAllFeatures ==
  \E toks \in SeqsUpTo(FeatureTokens, MaxExtract) :
    \E outcome \in {extractAllFeatures(featureCache, toks, clock)} :
      /\ Len(toks) > 0
      /\ featureCache' = outcome.cache
      /\ extracted' = [called |-> TRUE, tokens |-> toks, features |-> outcome.features,
                       cached |-> outcome.cached]
      /\ UNCHANGED <<clusterVars, charVars, scoreVars, historyVars, wheelVars, callVars,
                     adjustIn, adjustOut, trackedNarrative, elapsed, inFlight>>

\* a millisecond passes on the clock Date.now() reads
LaterExtraction ==
  /\ clock < MaxStamp
  /\ clock' = clock + 1
  /\ UNCHANGED <<clusterVars, charVars, scoreVars, clusterHistory, wheelVars, callVars,
                 engineVars>>

NextFeatures == ExtractAllFeatures \/ LaterExtraction

SpecFeatures == InitFeatures /\ [][NextFeatures]_vars

\* the tokens features were extracted for
Extracted(cache) == {cache[key].token : key \in DOMAIN cache}

\* C25: extracting features again for a token descriptor whose address and
\* update time are those of an earlier extraction, with or without an updatedAt
\* field, returns the cached record and adds no cache entry
UnchangedTokenReadFromCache ==
  [][clock' = clock =>
       /\ \A k \in 1..Len(extracted'.tokens) :
            extracted'.tokens[k] \in Extracted(featureCache) => extracted'.cached[k]
       /\ (\A k \in 1..Len(extracted'.tokens) : extracted'.tokens[k] \in Extracted(featureCache))
            => DOMAIN featureCache' = DOMAIN featureCache]_vars

-----------------------------------------------------------------------------
\* C26: when a pass of updateNarrativeProfiles ends, the registry holds exactly
\* as many profiles as it held when the pass began
PassKeepsRegistrySize ==
  [][(pc = "updating" /\ pc' = "idle") => Len(registry') = Len(before)]_vars

-----------------------------------------------------------------------------
\* characterizeNarratives on one cluster of one or two tokens of any kind.

NameClusters ==
  {[hasTokens |-> TRUE, strength |-> Num(strength), tokens |-> toks] :
     strength \in {20000, 60000},
     toks \in {<<[address |-> 1, vec |-> first]>> : first \in VecValues \cup {PlainKind.vec}}
              \cup {<<[address |-> 1, vec |-> first], [address |-> 2, vec |-> second]>> :
                      first \in VecValues \cup {PlainKind.vec},
                      second \in VecValues \cup {PlainKind.vec}}}

InitName ==
  /\ tokens = <<>>
  /\ clusterOut = NotCalled
  /\ detectOut = NotDetected
  /\ registry = <<>>
  /\ now = 0
  /\ pc = "idle"
  /\ cursor = 0
  /\ updatedProfiles = <<>>
  /\ before = <<>>
  /\ charIn \in {<<cluster>> : cluster \in NameClusters}
  /\ charOut = NoBatchOut
  /\ ScoreIdle
  /\ HistoryIdle
  /\ WheelIdle
  /\ CallIdle
  /\ EngineIdle

SpecName == InitName /\ [][NextCharBatch]_vars

\* C27: every cluster with at least one token is characterized to a profile,
\* whose name is the first of one to five name options
TokensGiveProfile ==
  charOut.called =>
    \A k \in 1..Len(charIn) :
      Len(charIn[k].tokens) >= 1 =>
        /\ ResultOf(k).outcome = "profile"
        /\ Len(generateNarrativeNames(charIn[k].tokens)) \in 1..5

-----------------------------------------------------------------------------
\* every token of the batch is in exactly one place of clusters and outliers
Partitions(toks, clusters, outliers) ==
  \A all \in {FlatTokens(clusters) \o outliers} :
    /\ Len(all) = Len(toks)
    /\ \A i \in 1..Len(toks) : Cardinality({k \in 1..Len(all) : all[k] = toks[i]}) = 1

\* C28: the clusters and the outliers of each of the three strategies, for
\* every choice of the k-means seeds, and those of the result of clusterTokens
\* partition the batch
ClustersAndOutliersPartitionBatch ==
  /\ clusterOut.called => Partitions(tokens, clusterOut.clusters, clusterOut.outliers)
  /\ ~clusterOut.called =>
       /\ \A result \in {performDBSCANClustering(tokens), performHierarchicalClustering(tokens)} :
            Partitions(tokens, result.clusters, result.outliers)
       /\ \A seeds \in [1..SeedCount(tokens) -> {Vector(tokens[i]) : i \in 1..Len(tokens)}] :
            \A result \in {performKMeansClustering(tokens, seeds)} :
              Partitions(tokens, result.clusters, result.outliers)

\* clusterTokens returned clusters and outliers
ClustersAndOutliersReturned ==
  /\ clusterOut.called
  /\ Len(clusterOut.clusters) > 0
  /\ Len(clusterOut.outliers) > 0

-----------------------------------------------------------------------------
\* The lifecycle of a tracked narrative: updateNarrativeLifecycle is called
\* with the current volume while the time since its emergence, in days, grows.

emergenceWindow == 1
growthWindow == 7
declineThreshold == 14

MaxElapsed == 15

RecordedVolumes == {0, 5, 10, 20}
CurrentVolumes == {0, 4, 9, 16, 31, 61}

\* three ifs in a row, each reading the stage the one before may have set,
\* where a declining narrative whose volume is back picks up again
updateNarrativeLifecycleWithRecovery(narrative, volume, timeSinceEmergence) ==
  LET first == IF narrative.lifecycle = "emerging" /\ timeSinceEmergence > emergenceWindow
                  /\ 2 * volume > 3 * narrative.totalVolume
               THEN "growing" ELSE narrative.lifecycle
      second == IF first = "growing" /\ timeSinceEmergence > growthWindow
                   /\ volume > 3 * narrative.totalVolume
                THEN "peak" ELSE first
      third == IF second \in {"peak", "growing"} /\ timeSinceEmergence > declineThreshold
                  /\ 2 * volume < narrative.totalVolume
               THEN "declining"
               ELSE IF second = "declining" /\ 2 * volume > 3 * narrative.totalVolume
               THEN "growing" ELSE second
  IN  [narrative EXCEPT !.lifecycle = third]

\* updateNarrativeLifecycle(narrative, currentMetrics): three ifs in a row,
\* each reading the stage the one before may have set
updateNarrativeLifecycle(narrative, volume, timeSinceEmergence) ==
  LET first == IF narrative.lifecycle = "emerging" /\ timeSinceEmergence > emergenceWindow
                  /\ 2 * volume > 3 * narrative.totalVolume
               THEN "growing" ELSE narrative.lifecycle
      second == IF first = "growing" /\ timeSinceEmergence > growthWindow
                   /\ volume > 3 * narrative.totalVolume
                THEN "peak" ELSE first
      third == IF second \in {"peak", "growing"} /\ timeSinceEmergence > declineThreshold
                  /\ 2 * volume < narrative.totalVolume
               THEN "declining" ELSE second
  IN  [narrative EXCEPT !.lifecycle = third]

\* a narrative is created emerging, with the volume of its cluster
InitTrack ==
  /\ tokens = <<>>
  /\ clusterOut = NotCalled
  /\ detectOut = NotDetected
  /\ CharIdle
  /\ ScoreIdle
  /\ HistoryIdle
  /\ WheelIdle
  /\ CallIdle
  /\ adjustIn = NoAdjustIn
  /\ adjustOut = NotAdjusted
  /\ featureCache = <<>>
  /\ extracted = NotExtracted
  /\ trackedNarrative \in [lifecycle : {"emerging"}, totalVolume : RecordedVolumes]
  /\ elapsed = 0
  /\ inFlight = 0

\* updateNarrativeLifecycle(narrative, {volume})
UpdateNarrativeLifecycle ==
  /\ \E volume \in CurrentVolumes :
       trackedNarrative' = updateNarrativeLifecycle(trackedNarrative, volume, elapsed)
  /\ UNCHANGED <<clusterVars, charVars, scoreVars, historyVars, wheelVars, callVars,
                 adjustIn, adjustOut, featureCache, extracted, elapsed, inFlight>>

\* a day passes
LaterUpdate ==
  /\ elapsed < MaxElapsed
  /\ elapsed' = elapsed + 1
  /\ UNCHANGED <<clusterVars, charVars, scoreVars, historyVars, wheelVars, callVars,
                 adjustIn, adjustOut, featureCache, extracted, trackedNarrative, inFlight>>

NextTrack == UpdateNarrativeLifecycle \/ LaterUpdate

SpecTrack == InitTrack /\ [][NextTrack]_vars

\* the place of a stage on the way emerging, growing, peak, declining
StagePlace(stage) ==
  CASE stage = "emerging" -> 1 [] stage = "growing" -> 2 [] stage = "peak" -> 3
    [] stage = "declining" -> 4 [] OTHER -> 0

\* C29: over updateNarrativeLifecycle calls the lifecycle only moves forward
\* along emerging, growing, peak, declining: never back, never out of
\* declining, and never from emerging to declining in one call
LifecycleMovesForward ==
  [][/\ StagePlace(trackedNarrative'.lifecycle) >= StagePlace(trackedNarrative.lifecycle)
     /\ trackedNarrative.lifecycle = "declining" => trackedNarrative'.lifecycle = "declining"
     /\ ~(trackedNarrative.lifecycle = "emerging" /\ trackedNarrative'.lifecycle = "declining")]_vars

\* a narrative went all the way to declining
DecliningReached ==
  /\ trackedNarrative.lifecycle = "declining"
  /\ elapsed > declineThreshold

-----------------------------------------------------------------------------
\* The schedule of index.js: cron starts aggregateData at every minute and a
\* timeout starts it two seconds after the server listens; a run with the
\* engines initialized awaits its fetches and the analysis before it writes
\* wheelState.  inFlight counts the runs that are awaiting.

InitSchedule ==
  /\ tokens = <<>>
  /\ clusterOut = NotCalled
  /\ detectOut = NotDetected
  /\ CharIdle
  /\ ScoreIdle
  /\ HistoryIdle
  /\ wheel \in {WheelAtStart(initialized) : initialized \in BOOLEAN}
  /\ runs = 0
  /\ CallIdle
  /\ EngineIdle

\* the cron job or the timeout calls aggregateData: without the engines the
\* run is fallbackAggregation, which awaits nothing; with them the run goes
\* up to its first await
StartAggregateData ==
  /\ runs < MaxRuns
  /\ runs' = runs + 1
  /\ IF wheel.engineInitialized
     THEN /\ inFlight' = inFlight + 1
          /\ UNCHANGED wheel
     ELSE /\ \E changes \in [1..Len(wheel.narratives) -> {-5, 5}], drift \in {-2, 2} :
               LET narratives == [k \in 1..Len(wheel.narratives) |->
                                    [wheel.narratives[k] EXCEPT
                                       !.score = Max2(0, Min2(100, @ + changes[k]))]]
               IN  wheel' = [wheel EXCEPT
                               !.narratives = narratives,
                               !.avgConfidence = Min2(100, @ + drift),
                               !.status = FallbackStatus(narratives)]
          /\ UNCHANGED inFlight
  /\ UNCHANGED <<clusterVars, charVars, scoreVars, historyVars, callVars, adjustIn, adjustOut,
                 featureCache, extracted, trackedNarrative, elapsed>>

\* the awaits of a run are over: it writes wheelState in one block
FinishAggregateData ==
  /\ inFlight > 0
  /\ inFlight' = inFlight - 1
  /\ \E count \in WheelCounts, strength \in WheelStrengths, confidence \in WheelConfidences :
       LET data == WheelData(count, strength, confidence)
           narratives == IF count > 0 THEN data ELSE wheel.narratives
           confidenceSum == SumSeq([k \in 1..count |-> data[k].confidence])
       IN  wheel' = [wheel EXCEPT
                       !.narratives = narratives,
                       !.avgConfidence = IF count > 0 THEN confidenceSum \div count ELSE 85,
                       !.status = AggregateStatus(count, confidenceSum, narratives)]
  /\ UNCHANGED <<clusterVars, charVars, scoreVars, historyVars, callVars, runs, adjustIn,
                 adjustOut, featureCache, extracted, trackedNarrative, elapsed>>

\* an await of a run throws: the catch runs fallbackAggregation
FailAggregateData ==
  /\ inFlight > 0
  /\ inFlight' = inFlight - 1
  /\ \E changes \in [1..Len(wheel.narratives) -> {-5, 5}], drift \in {-2, 2} :
       LET narratives == [k \in 1..Len(wheel.narratives) |->
                            [wheel.narratives[k] EXCEPT
                               !.score = Max2(0, Min2(100, @ + changes[k]))]]
       IN  wheel' = [wheel EXCEPT
                       !.narratives = narratives,
                       !.avgConfidence = Min2(100, @ + drift),
                       !.status = FallbackStatus(narratives)]
  /\ UNCHANGED <<clusterVars, charVars, scoreVars, historyVars, callVars, runs, adjustIn,
                 adjustOut, featureCache, extracted, trackedNarrative, elapsed>>

NextSchedule == StartAggregateData \/ FinishAggregateData \/ FailAggregateData

SpecSchedule == InitSchedule /\ [][NextSchedule]_vars

\* C30: aggregation runs never overlap: at most one run of aggregateData is
\* awaiting its fetches at any time
RunsNeverOverlap == inFlight <= 1

====
